---- MODULE Spec2Model ----
(***************************************************************************)
(* Model of the failure localizer of the ZMK matrix debugger               *)
(* (src/script.js): the loaded topology (parsedData), the selection kept   *)
(* by the canvas click handler (state.selectedIndices, a JS Set, iterated  *)
(* in insertion order), and analyzeFailures as diagnose() calls it.        *)
(* ZMKParser.parse is modelled as an operator on the files it is given,    *)
(* handleRepoLoad as one action for each stretch between two awaits.       *)
(***************************************************************************)
EXTENDS Integers, Sequences, FiniteSets, TLC

VARIABLES parsedData, selectedIndices, issueMapping, resultHidden,
          failures, analyzed, calls, repeated, filesData, parser,
          status, debugHidden, manualHidden, instructionHidden, loads,
          parsedOwner

\* calls and repeated are history variables: the number of analyzeFailures
\* calls made so far (counted up to MaxCalls) and whether the last two
\* handlers that ran both called it
vars == <<parsedData, selectedIndices, issueMapping, resultHidden,
          failures, analyzed, calls, repeated, filesData, parser,
          status, debugHidden, manualHidden, instructionHidden, loads,
          parsedOwner>>

\* filesData is the file map handed to ZMKParser.parse (a JS object, iterated
\* in insertion order: a sequence of files) and parser the ZMKParser object
\* status is the class that setStatus gave the status line; debugHidden,
\* manualHidden and instructionHidden tell whether the debug interface, the
\* two database panels (template download and manual upload, always changed
\* together) and the repository instructions carry the class `hidden`; loads
\* holds the handleRepoLoad invocations made so far, each with its local
\* variables, and parsedOwner the invocation whose result object parsedData
\* refers to (0: an object no invocation made)
loaderVars == <<filesData, parser, status, debugHidden, manualHidden,
                instructionHidden, loads, parsedOwner>>

-----------------------------------------------------------------------------
(* Bounds of the model *)

\* number of physical keys of the loaded keyboard
NumKeys == 6

\* the analyzeFailures calls that the history variable `calls` tells apart
MaxCalls == 2

\* the largest number of files of a corpus
MaxFiles == 3

\* the largest number of lines of a build configuration file
MaxLines == 3

\* the largest number of handleRepoLoad invocations
MaxLoads == 2

-----------------------------------------------------------------------------
(* Program constants *)

\* (count / total) > 0.6, as count * 10 > total * 6
LineRatioTenths == 6
\* (selected / total) > 0.8, as selected * 10 > total * 8
SideRatioTenths == 8
\* sideTotal > 5
InterruptMinTotal == 5
\* directIndices.length > 2
DirectMinTotal == 2
\* ISSUE_COLORS.length
NumIssueColors == 8

\* a property that is absent from a JS object (undefined)
Undefined == 0 - 1
\* the value of the fields a report of some type does not carry
NoField == 0 - 1

-----------------------------------------------------------------------------
(* Sequence helpers *)

Range(s) == {s[i] : i \in 1..Len(s)}

Includes(s, x) == \E i \in 1..Len(s) : s[i] = x

RECURSIVE Concat(_)
Concat(ss) == IF ss = <<>> THEN <<>> ELSE Head(ss) \o Concat(Tail(ss))

\* the members of a finite set of integers in ascending order: the order in
\* which JS enumerates integer-like property names
RECURSIVE Ascending(_)
Ascending(S) ==
    IF S = {} THEN <<>>
    ELSE LET lo == CHOOSE x \in S : \A y \in S : x <= y
         IN  <<lo>> \o Ascending(S \ {lo})

\* a sequence without its repeated members, first occurrences kept (new Set([...]))
RECURSIVE Dedup(_)
Dedup(s) ==
    IF s = <<>> THEN <<>>
    ELSE LET front == Dedup(SubSeq(s, 1, Len(s) - 1))
             x == s[Len(s)]
         IN  IF Includes(front, x) THEN front ELSE Append(front, x)

-----------------------------------------------------------------------------
(* Topology accessors *)

\* key indices are 0-based as in the program; matrixMap[idx] is undefined
\* for an index at or beyond matrixMap.length
HasEntry(pd, idx) == idx >= 0 /\ idx < Len(pd.matrixMap)

EntryOf(pd, idx) == pd.matrixMap[idx + 1]

MapIndices(pd) == 0 .. (Len(pd.matrixMap) - 1)

\* parsedData.pinMap[s]
pMapOf(pd, s) ==
    LET i == CHOOSE j \in 1..Len(pd.pinMap) : pd.pinMap[j].name = s
    IN  pd.pinMap[i]

\* p.gpios / p.direct are created only when a non-empty list was parsed;
\* the empty sequence models an absent property
HasGpios(p) == p.gpios # <<>>
HasDirect(p) == p.direct # <<>>
HasInterrupt(p) == p.interrupt # ""

\* x || 0
OrZero(x) == IF x = Undefined THEN 0 ELSE x

\* list[i] of a pin object {0: pin, 1: pin, ...}; "undefined" beyond its end
PinAt(list, i) == IF i >= 0 /\ i < Len(list) THEN list[i + 1] ELSE "undefined"

\* list[i] || 'Unknown'
PinOrUnknown(list, i) ==
    IF PinAt(list, i) = "undefined" THEN "Unknown" ELSE PinAt(list, i)

-----------------------------------------------------------------------------
(* analyzeFailures, step 1: valid shields *)

\* every shield that has a bucket in pinMap counts as valid
IsValidShieldAnyBucket(p) == Len(p.row) >= 0

IsValidShield(p) ==
    \/ Len(p.row) > 0
    \/ Len(p.col) > 0
    \/ Len(p.gpios) > 0
    \/ Len(p.direct) > 0

RECURSIVE FilterValid(_)
FilterValid(pm) ==
    IF pm = <<>> THEN <<>>
    ELSE IF IsValidShield(Head(pm))
         THEN <<Head(pm).name>> \o FilterValid(Tail(pm))
         ELSE FilterValid(Tail(pm))

validShields(pd) == FilterValid(pd.pinMap)

-----------------------------------------------------------------------------
(* getSideAndPhysCoords *)

\* the first shield that contains the key is kept, whatever its offsets
MatchStepFirstWins(pd, m, best, s) ==
    LET offsetC == OrZero(pMapOf(pd, s).colOffset)
        offsetR == OrZero(pMapOf(pd, s).rowOffset)
        score == offsetC + offsetR
    IN  IF m.c >= offsetC /\ m.r >= offsetR /\ best.maxMatchScore < 0
        THEN [maxMatchScore |-> score, side |-> s,
              physC |-> m.c - offsetC, physR |-> m.r - offsetR]
        ELSE best

\* one iteration of validShields.forEach in getSideAndPhysCoords
MatchStep(pd, m, best, s) ==
    LET offsetC == OrZero(pMapOf(pd, s).colOffset)
        offsetR == OrZero(pMapOf(pd, s).rowOffset)
        score == offsetC + offsetR
    IN  IF m.c >= offsetC /\ m.r >= offsetR /\ score > best.maxMatchScore
        THEN [maxMatchScore |-> score, side |-> s,
              physC |-> m.c - offsetC, physR |-> m.r - offsetR]
        ELSE best

RECURSIVE MatchLoop(_, _, _, _)
MatchLoop(pd, m, best, vs) ==
    IF vs = <<>> THEN best
    ELSE MatchLoop(pd, m, MatchStep(pd, m, best, Head(vs)), Tail(vs))

\* called only with at least one valid shield and a defined entry m
getSideAndPhysCoords(pd, m) ==
    LET vs == validShields(pd)
        start == [maxMatchScore |-> 0 - 1, side |-> vs[1],
                  physC |-> m.c, physR |-> m.r]
        best == MatchLoop(pd, m, start, vs)
    IN  [side |-> best.side, physC |-> best.physC, physR |-> best.physR]

\* every physical key is resolved, a key without entry as if it were at
\* logical (0, 0)
PositionsEveryKey(pd) ==
    [idx \in 0 .. (Len(pd.physicalKeys) - 1) |->
        getSideAndPhysCoords(pd, IF HasEntry(pd, idx) THEN EntryOf(pd, idx)
                                 ELSE [r |-> 0, c |-> 0])]

\* the resolution of every key that has a matrix entry
Positions(pd) ==
    [idx \in MapIndices(pd) |-> getSideAndPhysCoords(pd, EntryOf(pd, idx))]

-----------------------------------------------------------------------------
(* Reports *)

\* the object literal pushed to `report`; a field a type does not carry is
\* NoField (numbers) or "" (strings)
MkReport(type, side, pin, row, col, index, roleFail, r, c, indices) ==
    [type |-> type, side |-> side, pin |-> pin, row |-> row, col |-> col,
     index |-> index, roleFail |-> roleFail, r |-> r, c |-> c,
     indices |-> indices]

\* coveredIndices after indices.forEach(idx => coveredIndices.add(idx)) for
\* every report of rs
RECURSIVE AddCovered(_, _)
AddCovered(covered, rs) ==
    IF rs = <<>> THEN covered
    ELSE AddCovered(covered \cup Range(Head(rs).indices), Tail(rs))

-----------------------------------------------------------------------------
(* analyzeFailures, steps 2 and 3: totals and groups *)

\* the keys of the topology that resolve to `side`, in matrixMap.forEach order
SideIndices(pos, side) == Ascending({idx \in DOMAIN pos : pos[idx].side = side})

\* selected.filter(idx => m && getSideAndPhysCoords(m).side === side)
SelectedOnSide(selected, pos, side) ==
    SelectSeq(selected, LAMBDA idx : idx \in DOMAIN pos /\ pos[idx].side = side)

\* counts[side].rows[physR] and counts[side].cols[physC]
CountsRows(pos, side, physR) ==
    Cardinality({idx \in DOMAIN pos : pos[idx].side = side /\ pos[idx].physR = physR})

CountsCols(pos, side, physC) ==
    Cardinality({idx \in DOMAIN pos : pos[idx].side = side /\ pos[idx].physC = physC})

\* groups[side].rows[physR] and groups[side].cols[physC]: pushed in the
\* iteration order of `selected`
GroupsRows(selected, pos, side, physR) ==
    SelectSeq(selected, LAMBDA idx :
        idx \in DOMAIN pos /\ pos[idx].side = side /\ pos[idx].physR = physR)

GroupsCols(selected, pos, side, physC) ==
    SelectSeq(selected, LAMBDA idx :
        idx \in DOMAIN pos /\ pos[idx].side = side /\ pos[idx].physC = physC)

\* the property names of groups[side].rows / groups[side].cols, as for..in
\* enumerates them
GroupRowKeys(selected, pos, side) ==
    Ascending({pos[idx].physR : idx \in {i \in Range(selected) :
        i \in DOMAIN pos /\ pos[i].side = side}})

GroupColKeys(selected, pos, side) ==
    Ascending({pos[idx].physC : idx \in {i \in Range(selected) :
        i \in DOMAIN pos /\ pos[i].side = side}})

\* Object.keys(charlieTotals[side].in) and Object.keys(charlieTotals[side].out)
CharlieInKeys(pos, side) ==
    Ascending({pos[idx].physR : idx \in {i \in DOMAIN pos : pos[i].side = side}})

CharlieOutKeys(pos, side) ==
    Ascending({pos[idx].physC : idx \in {i \in DOMAIN pos : pos[i].side = side}})

\* charlieCounts[side].in[pIdx] || 0 and charlieCounts[side].out[pIdx] || 0
CharlieCountIn(selected, pos, side, pIdx) == Len(GroupsRows(selected, pos, side, pIdx))
CharlieCountOut(selected, pos, side, pIdx) == Len(GroupsCols(selected, pos, side, pIdx))

-----------------------------------------------------------------------------
(* analyzeFailures, step 4: thresholds *)

\* the threshold reached rather than exceeded
LineFailsInclusive(count, total) == total > 0 /\ count * 10 >= total * LineRatioTenths

\* total > 0 && (count / total) > 0.6
LineFails(count, total) == total > 0 /\ count * 10 > total * LineRatioTenths

\* a side of exactly the minimum size taken too
InterruptFiresAtMinimum(sideTotal, selectedOnSide) ==
    sideTotal >= InterruptMinTotal /\ selectedOnSide * 10 > sideTotal * SideRatioTenths

\* sideTotal > 5 && (selectedOnSide / sideTotal) > 0.8
InterruptFires(sideTotal, selectedOnSide) ==
    sideTotal > InterruptMinTotal /\ selectedOnSide * 10 > sideTotal * SideRatioTenths

\* the whole-side ratio reached rather than exceeded
DirectGndFiresInclusive(total, selectedCount) ==
    total > DirectMinTotal /\ selectedCount * 10 >= total * SideRatioTenths

\* directIndices.length > 2 && (selectedDirectOnSide.length / directIndices.length) > 0.8
DirectGndFires(total, selectedCount) ==
    total > DirectMinTotal /\ selectedCount * 10 > total * SideRatioTenths

\* the two single roles exchanged
RoleFailSwapped(inFail, outFail) ==
    IF inFail /\ ~outFail THEN "out"
    ELSE IF ~inFail /\ outFail THEN "in"
    ELSE "both"

\* roleFail of a pin with at least one flagged role
RoleFail(inFail, outFail) ==
    IF inFail /\ ~outFail THEN "in"
    ELSE IF ~inFail /\ outFail THEN "out"
    ELSE "both"

-----------------------------------------------------------------------------
(* analyzeFailures, step 4: the passes over one shield *)

\* --- Interrupt logic ---
InterruptReports(pd, selected, pos, side) ==
    LET pMap == pMapOf(pd, side)
        sideIndices == SideIndices(pos, side)
        sideTotal == Len(sideIndices)
        selectedOnSide == Len(SelectedOnSide(selected, pos, side))
    IN  IF HasInterrupt(pMap) /\ InterruptFires(sideTotal, selectedOnSide)
        THEN <<MkReport("interrupt", side, pMap.interrupt, NoField, NoField,
                        NoField, "", NoField, NoField, sideIndices)>>
        ELSE <<>>

\* the keys collected for a flagged pin, without the filter selected.includes
CharlieInvolvedUnfiltered(selected, pos, side, pIdx, roleFail) ==
    Ascending({kIdx \in DOMAIN pos :
        /\ pos[kIdx].side = side
        /\ \/ roleFail = "in" /\ pos[kIdx].physR = pIdx
           \/ roleFail = "out" /\ pos[kIdx].physC = pIdx
           \/ roleFail = "both" /\ (pos[kIdx].physR = pIdx \/ pos[kIdx].physC = pIdx)})

\* the keys collected for a flagged pin (matrixMap.forEach order), filtered
\* by selected.includes
CharlieInvolved(selected, pos, side, pIdx, roleFail) ==
    LET indices == Ascending({kIdx \in DOMAIN pos :
            /\ pos[kIdx].side = side
            /\ \/ roleFail = "in" /\ pos[kIdx].physR = pIdx
               \/ roleFail = "out" /\ pos[kIdx].physC = pIdx
               \/ roleFail = "both" /\ (pos[kIdx].physR = pIdx \/ pos[kIdx].physC = pIdx)})
    IN  SelectSeq(indices, LAMBDA idx : Includes(selected, idx))

\* the body of allIndices.forEach for one ordinal pin index
CharliePin(pd, selected, pos, side, pIdx) ==
    LET inCount == CharlieCountIn(selected, pos, side, pIdx)
        inTotal == CountsRows(pos, side, pIdx)
        outCount == CharlieCountOut(selected, pos, side, pIdx)
        outTotal == CountsCols(pos, side, pIdx)
        inFail == LineFails(inCount, inTotal)
        outFail == LineFails(outCount, outTotal)
        roleFail == RoleFail(inFail, outFail)
    IN  IF inFail \/ outFail
        THEN <<MkReport("charlie", side, PinOrUnknown(pMapOf(pd, side).gpios, pIdx),
                        NoField, NoField, pIdx, roleFail, NoField, NoField,
                        CharlieInvolved(selected, pos, side, pIdx, roleFail))>>
        ELSE <<>>

\* --- Charlieplex Analysis ---
CharlieReports(pd, selected, pos, side) ==
    LET allIndices == Dedup(CharlieInKeys(pos, side) \o CharlieOutKeys(pos, side))
    IN  Concat([i \in 1..Len(allIndices) |->
                    CharliePin(pd, selected, pos, side, allIndices[i])])

\* every key of the side, whether or not its local column has a direct pin
DirectIndicesAllKeys(pd, pos, side) ==
    Ascending({idx \in DOMAIN pos : pos[idx].side = side})

\* directIndices: the keys of the side whose local column has a direct pin
DirectIndices(pd, pos, side) ==
    Ascending({idx \in DOMAIN pos :
        /\ pos[idx].side = side
        /\ PinAt(pMapOf(pd, side).direct, pos[idx].physC) # "undefined"})

\* --- Direct GPIO Analysis ---
DirectReports(pd, selected, pos, side) ==
    LET pMap == pMapOf(pd, side)
        directIndices == DirectIndices(pd, pos, side)
        selectedDirectOnSide ==
            SelectSeq(directIndices, LAMBDA idx : Includes(selected, idx))
    IN  IF DirectGndFires(Len(directIndices), Len(selectedDirectOnSide))
        THEN <<MkReport("direct_gnd", side, "", NoField, NoField, NoField, "",
                        NoField, NoField, directIndices)>>
        ELSE [i \in 1..Len(selectedDirectOnSide) |->
                LET idx == selectedDirectOnSide[i]
                IN  MkReport("direct", side,
                             PinOrUnknown(pMap.direct, pos[idx].physC),
                             NoField, NoField, idx, "", NoField, NoField, <<idx>>)]

\* --- Standard Matrix Analysis ---, rows
RowReports(pd, selected, pos, side) ==
    LET keys == GroupRowKeys(selected, pos, side)
    IN  Concat([i \in 1..Len(keys) |->
            LET physR == keys[i]
                group == GroupsRows(selected, pos, side, physR)
            IN  IF LineFails(Len(group), CountsRows(pos, side, physR))
                THEN <<MkReport("row", side, PinAt(pMapOf(pd, side).row, physR),
                                physR, NoField, NoField, "", NoField, NoField, group)>>
                ELSE <<>>])

\* --- Standard Matrix Analysis ---, columns
ColReports(pd, selected, pos, side) ==
    LET keys == GroupColKeys(selected, pos, side)
    IN  Concat([i \in 1..Len(keys) |->
            LET physC == keys[i]
                group == GroupsCols(selected, pos, side, physC)
            IN  IF LineFails(Len(group), CountsCols(pos, side, physC))
                THEN <<MkReport("col", side, PinAt(pMapOf(pd, side).col, physC),
                                NoField, physC, NoField, "", NoField, NoField, group)>>
                ELSE <<>>])

\* the standard-matrix pass with the column loop ahead of the row loop
WiringReportsColsFirst(pd, selected, pos, side) ==
    IF HasGpios(pMapOf(pd, side)) THEN CharlieReports(pd, selected, pos, side)
    ELSE IF HasDirect(pMapOf(pd, side)) THEN DirectReports(pd, selected, pos, side)
    ELSE ColReports(pd, selected, pos, side) \o RowReports(pd, selected, pos, side)

\* if (pMap.gpios) ... else if (pMap.direct) ... else ...
WiringReports(pd, selected, pos, side) ==
    IF HasGpios(pMapOf(pd, side)) THEN CharlieReports(pd, selected, pos, side)
    ELSE IF HasDirect(pMapOf(pd, side)) THEN DirectReports(pd, selected, pos, side)
    ELSE RowReports(pd, selected, pos, side) \o ColReports(pd, selected, pos, side)

\* the single pass without its test info.side === side
SingleReportsAnySide(pd, selected, pos, side, coveredIndices) ==
    LET left == SelectSeq(selected, LAMBDA idx :
                    /\ idx \notin coveredIndices
                    /\ HasEntry(pd, idx))
    IN  [i \in 1..Len(left) |->
            MkReport("single", side, "", NoField, NoField, left[i], "",
                     EntryOf(pd, left[i]).r, EntryOf(pd, left[i]).c, <<left[i]>>)]

\* --- Single Key Failures ---: the selected keys of the side that
\* coveredIndices does not hold, in the iteration order of `selected`
SingleReports(pd, selected, pos, side, coveredIndices) ==
    LET left == SelectSeq(selected, LAMBDA idx :
                    /\ idx \notin coveredIndices
                    /\ HasEntry(pd, idx)
                    /\ pos[idx].side = side)
    IN  [i \in 1..Len(left) |->
            MkReport("single", side, "", NoField, NoField, left[i], "",
                     EntryOf(pd, left[i]).r, EntryOf(pd, left[i]).c, <<left[i]>>)]

\* one iteration without the single pass
AnalyzeSideNoSingles(pd, selected, pos, acc, side) ==
    LET found == InterruptReports(pd, selected, pos, side)
                 \o WiringReports(pd, selected, pos, side)
    IN  [report |-> acc.report \o found,
         coveredIndices |-> AddCovered(acc.coveredIndices, found)]

\* one iteration of validShields.forEach(side => ...): acc is the pair of
\* `report` and `coveredIndices`, both shared by all iterations of one call
AnalyzeSide(pd, selected, pos, acc, side) ==
    LET found == InterruptReports(pd, selected, pos, side)
                 \o WiringReports(pd, selected, pos, side)
        covered == AddCovered(acc.coveredIndices, found)
    IN  [report |-> acc.report \o found
                    \o SingleReports(pd, selected, pos, side, covered),
         coveredIndices |-> covered]

RECURSIVE AnalyzeSides(_, _, _, _, _)
AnalyzeSides(pd, selected, pos, acc, vs) ==
    IF vs = <<>> THEN acc
    ELSE AnalyzeSides(pd, selected, pos,
                      AnalyzeSide(pd, selected, pos, acc, Head(vs)), Tail(vs))

\* analyzeFailures(): `selected` is Array.from(state.selectedIndices)
analyzeFailures(pd, selected) ==
    IF Len(validShields(pd)) = 0 THEN <<>>
    ELSE AnalyzeSides(pd, selected, Positions(pd),
                      [report |-> <<>>, coveredIndices |-> {}],
                      validShields(pd)).report

-----------------------------------------------------------------------------
(* The UI state and its handlers *)

\* state.issueMapping when a later report overwrites the colour of a key
IssueMappingOfLastWins(fs) ==
    [kIdx \in UNION {Range(fs[i].indices) : i \in 1..Len(fs)} |->
        LET fIdx == CHOOSE i \in 1..Len(fs) :
                /\ Includes(fs[i].indices, kIdx)
                /\ \A j \in (i + 1)..Len(fs) : ~Includes(fs[j].indices, kIdx)
        IN  (fIdx - 1) % NumIssueColors]

\* state.issueMapping after failures.forEach in diagnose: a key keeps the
\* colour of the first report that lists it
IssueMappingOf(fs) ==
    [kIdx \in UNION {Range(fs[i].indices) : i \in 1..Len(fs)} |->
        LET fIdx == CHOOSE i \in 1..Len(fs) :
                /\ Includes(fs[i].indices, kIdx)
                /\ \A j \in 1..(i - 1) : ~Includes(fs[j].indices, kIdx)
        IN  (fIdx - 1) % NumIssueColors]

\* canvas click on key `index`: set.delete(index) or set.add(index)
Toggle(selected, index) ==
    IF Includes(selected, index)
    THEN SelectSeq(selected, LAMBDA x : x # index)
    ELSE Append(selected, index)

\* canvas.addEventListener('click', ...) for a click that hits key `index`
Click(index) ==
    /\ index \in 0 .. (Len(parsedData.physicalKeys) - 1)
    /\ issueMapping' = <<>>
    /\ resultHidden' = TRUE
    /\ selectedIndices' = Toggle(selectedIndices, index)
    /\ failures' = <<>>
    /\ analyzed' = FALSE
    /\ UNCHANGED parsedData

resetSelection ==
    /\ selectedIndices' = <<>>
    /\ issueMapping' = <<>>
    /\ resultHidden' = TRUE
    /\ failures' = <<>>
    /\ analyzed' = FALSE
    /\ UNCHANGED parsedData

\* diagnose() with an empty selection: the early return
diagnoseEmpty ==
    /\ Len(selectedIndices) = 0
    /\ resultHidden' = TRUE
    /\ failures' = <<>>
    /\ analyzed' = FALSE
    /\ UNCHANGED <<parsedData, selectedIndices, issueMapping>>

\* diagnose() with coveredIndices kept from the call before: the keys the
\* last diagnosis coloured count as covered
diagnoseKeepsCovered ==
    /\ Len(selectedIndices) > 0
    /\ resultHidden' = FALSE
    /\ failures' =
        IF Len(validShields(parsedData)) = 0 THEN <<>>
        ELSE AnalyzeSides(parsedData, selectedIndices, Positions(parsedData),
                          [report |-> <<>>, coveredIndices |-> DOMAIN issueMapping],
                          validShields(parsedData)).report
    /\ issueMapping' = IssueMappingOf(failures')
    /\ analyzed' = TRUE
    /\ UNCHANGED <<parsedData, selectedIndices>>

\* diagnose() that hands the selection over to the analysis and empties it
diagnoseConsumesSelection ==
    /\ Len(selectedIndices) > 0
    /\ resultHidden' = FALSE
    /\ failures' = analyzeFailures(parsedData, selectedIndices)
    /\ issueMapping' = IssueMappingOf(failures')
    /\ analyzed' = TRUE
    /\ selectedIndices' = <<>>
    /\ UNCHANGED parsedData

\* diagnose() with a selection: failures is the list analyzeFailures returned
diagnose ==
    /\ Len(selectedIndices) > 0
    /\ resultHidden' = FALSE
    /\ failures' = analyzeFailures(parsedData, selectedIndices)
    /\ issueMapping' = IssueMappingOf(failures')
    /\ analyzed' = TRUE
    /\ UNCHANGED <<parsedData, selectedIndices>>

Next ==
    \/ \E index \in 0 .. (NumKeys - 1) : Click(index) /\ UNCHANGED <<calls, repeated, loaderVars>>
    \/ resetSelection /\ UNCHANGED <<calls, repeated, loaderVars>>
    \/ diagnoseEmpty /\ UNCHANGED <<calls, repeated, loaderVars>>
    \/ diagnose /\ UNCHANGED <<calls, repeated, loaderVars>>

\* the history of the analyzeFailures calls, recorded along a handler
Counted ==
    /\ calls' = IF analyzed' /\ calls < MaxCalls THEN calls + 1 ELSE calls
    /\ repeated' = (analyzed /\ analyzed')

NextCounted ==
    \/ \E index \in 0 .. (NumKeys - 1) : Click(index) /\ Counted /\ UNCHANGED loaderVars
    \/ resetSelection /\ Counted /\ UNCHANGED loaderVars
    \/ diagnoseEmpty /\ Counted /\ UNCHANGED loaderVars
    \/ diagnose /\ Counted /\ UNCHANGED loaderVars

-----------------------------------------------------------------------------
(* Loaded topologies *)

RowPinNames == <<"row 0", "row 1", "row 2", "row 3", "row 4", "row 5", "row 6", "row 7">>
ColPinNames == <<"col 0", "col 1", "col 2", "col 3", "col 4", "col 5", "col 6", "col 7">>
GpioPinNames == <<"gpio 0", "gpio 1", "gpio 2", "gpio 3", "gpio 4", "gpio 5", "gpio 6", "gpio 7">>
InputPinNames == <<"input 0", "input 1", "input 2", "input 3", "input 4", "input 5", "input 6", "input 7">>

Pins(names, n) == SubSeq(names, 1, n)

\* a pinMap entry as the parser leaves it: row and col always exist
Shield(name, row, col, gpios, direct, interrupt, colOffset, rowOffset) ==
    [name |-> name, row |-> row, col |-> col, gpios |-> gpios, direct |-> direct,
     interrupt |-> interrupt, colOffset |-> colOffset, rowOffset |-> rowOffset]

NoPins(name, colOffset, rowOffset) ==
    Shield(name, <<>>, <<>>, <<>>, <<>>, "", colOffset, rowOffset)

Standard(name, nRow, nCol, interrupt, colOffset, rowOffset) ==
    Shield(name, Pins(RowPinNames, nRow), Pins(ColPinNames, nCol), <<>>, <<>>,
           interrupt, colOffset, rowOffset)

Charlie(name, n, interrupt, colOffset, rowOffset) ==
    Shield(name, <<>>, <<>>, Pins(GpioPinNames, n), <<>>, interrupt,
           colOffset, rowOffset)

Direct(name, n, colOffset, rowOffset) ==
    Shield(name, <<>>, <<>>, <<>>, Pins(InputPinNames, n), "", colOffset, rowOffset)

\* the transform map of a keyboard wired `width` keys per logical row
Layout(width, len) ==
    [i \in 1..len |-> [r |-> (i - 1) \div width, c |-> (i - 1) % width]]

\* the transform map of a charlieplex keyboard of `pins` pins: a key for
\* every ordered pair of distinct pins, the first `len` of them (all of them
\* when there are fewer: the remaining keys then have no entry)
CharlieLayout(pins, len) ==
    LET pairs == [k \in 1..(pins * (pins - 1)) |->
                    LET r == (k - 1) \div (pins - 1)
                        j == (k - 1) % (pins - 1)
                    IN  [r |-> r, c |-> IF j < r THEN j ELSE j + 1]]
    IN  SubSeq(pairs, 1, IF len < Len(pairs) THEN len ELSE Len(pairs))

\* database: null
NoDatabase == <<"null">>

\* NumKeys keys of one unit, side by side (lengths in hundredths of a unit)
KeyRow ==
    [i \in 1..NumKeys |-> [w |-> 100, h |-> 100, x |-> (i - 1) * 100, y |-> 0,
                           r |-> 0, rx |-> 0, ry |-> 0]]

\* parsedData after a load that found no database
Topology(matrixMap, shields) ==
    [physicalKeys |-> KeyRow, matrixMap |-> matrixMap, pinMap |-> shields,
     diodeDirection |-> "col2row", database |-> NoDatabase]

-----------------------------------------------------------------------------
(* Input files of ZMKParser.parse *)

\* A shield name or a file path as the sequence of the pieces the names of
\* the model are made of: String.includes and String.endsWith are computed
\* on it. A name that is not listed is one piece.
Spelling(name) ==
    CASE name = "foo_l" -> <<"foo", "_l">>
      [] name = "foo_r" -> <<"foo", "_r">>
      [] name = "config/build.yaml" -> <<"config/", "build.yaml">>
      [] name = "boards/shields/foo/foo.dtsi" ->
            <<"boards/shields/", "foo", "/", "foo", ".dtsi">>
      [] name = "boards/shields/foo/foo_l.overlay" ->
            <<"boards/shields/", "foo", "/", "foo", "_l", ".overlay">>
      [] name = "boards/shields/foo/foo_r.overlay" ->
            <<"boards/shields/", "foo", "/", "foo", "_r", ".overlay">>
      [] name = "boards/shields/bar/bar.overlay" ->
            <<"boards/shields/", "bar", "/", "bar", ".overlay">>
      [] name = "config/keyboard.dtsi" -> <<"config/", "keyboard", ".dtsi">>
      [] name = "config/keyboard.keymap" -> <<"config/", "keyboard", ".keymap">>
      [] name = "config/keyboard.conf" -> <<"config/", "keyboard", ".conf">>
      [] name = "README.md" -> <<"README", ".md">>
      [] OTHER -> <<name>>

\* name.includes(part)
NameIncludes(name, part) ==
    LET n == Spelling(name)
        q == Spelling(part)
    IN  \E i \in 0 .. (Len(n) - Len(q)) : SubSeq(n, i + 1, i + Len(q)) = q

\* name.endsWith(part)
NameEndsWith(name, part) ==
    LET n == Spelling(name)
        q == Spelling(part)
    IN  Len(q) <= Len(n) /\ SubSeq(n, Len(n) - Len(q) + 1, Len(n)) = q

\* a property that the text of a file does not hold
NoProperty == <<"(absent)">>

\* The text of a file, by what the regular expressions of the parser look
\* for in it:
\*   lines       its lines as token sequences (build configuration)
\*   chosen      the label of the first `zmk,physical-layout = &LABEL;`
\*   nodes       its labelled nodes in text order, each with its label, its
\*               physical-layout compatible string and its keys block
\*   maps        its `map = < ... >;` blocks in text order
\*   colOffset, rowOffset, diode   the first declaration of each
\*   compatible  the kscan compatible strings
\*   rowGpios .. inputGpios        the value of the first such property
File(name) ==
    [name |-> name, lines |-> <<>>, chosen |-> "", nodes |-> <<>>, maps |-> <<>>,
     colOffset |-> Undefined, rowOffset |-> Undefined, diode |-> "",
     compatible |-> {}, rowGpios |-> NoProperty, colGpios |-> NoProperty,
     gpios |-> NoProperty, interruptGpios |-> NoProperty,
     inputGpios |-> NoProperty]

Min(S) == CHOOSE x \in S : \A y \in S : x <= y

\* a line up to its first comment sign
BeforeComment(line) ==
    LET signs == {i \in 1..Len(line) : line[i] \in {"#", "//"}}
    IN  IF signs = {} THEN line ELSE SubSeq(line, 1, Min(signs) - 1)

\* stripComments; the devicetree fields of a file describe the text that
\* stripComments leaves
stripComments(file) ==
    [file EXCEPT !.lines = [i \in 1..Len(file.lines) |-> BeforeComment(file.lines[i])]]

-----------------------------------------------------------------------------
(* ZMKParser *)

\* new ZMKParser()
NewParser ==
    [result |-> [physicalKeys |-> <<>>, matrixMap |-> <<>>, pinMap |-> <<>>,
                 diodeDirection |-> "col2row"],
     rawFiles |-> <<>>,
     shields |-> <<>>]

HasBucket(p, s) == \E i \in 1..Len(p.result.pinMap) : p.result.pinMap[i].name = s

\* if (!this.result.pinMap[s]) this.result.pinMap[s] = { row: {}, col: {} }
WithBucket(p, s) ==
    IF HasBucket(p, s) THEN p
    ELSE [p EXCEPT !.result.pinMap = Append(@, NoPins(s, Undefined, Undefined))]

\* the place of this.result.pinMap[s] among the buckets
BucketIndex(p, s) == CHOOSE i \in 1..Len(p.result.pinMap) : p.result.pinMap[i].name = s

\* tokens without leading and trailing blanks: String.trim
RECURSIVE TrimLeft(_)
TrimLeft(tokens) ==
    IF tokens # <<>> /\ Head(tokens) = " " THEN TrimLeft(Tail(tokens)) ELSE tokens

RECURSIVE TrimRight(_)
TrimRight(tokens) ==
    IF tokens # <<>> /\ tokens[Len(tokens)] = " "
    THEN TrimRight(SubSeq(tokens, 1, Len(tokens) - 1)) ELSE tokens

Trim(tokens) == TrimRight(TrimLeft(tokens))

\* replace(/[...]/g, ''): the tokens of S removed
Without(tokens, S) == SelectSeq(tokens, LAMBDA t : t \notin S)

\* String.split(sep): the pieces between the separators, at least one
RECURSIVE SplitOn(_, _)
SplitOn(tokens, sep) ==
    LET at == {i \in 1..Len(tokens) : tokens[i] = sep}
    IN  IF at = {} THEN <<tokens>>
        ELSE <<SubSeq(tokens, 1, Min(at) - 1)>>
             \o SplitOn(SubSeq(tokens, Min(at) + 1, Len(tokens)), sep)

\* line.match(/shield:\s*(.*)/): the text after the first `shield:`, trimmed
HasShieldValue(line) == \E i \in 1..Len(line) : line[i] = "shield:"

ShieldValue(line) ==
    LET at == Min({i \in 1..Len(line) : line[i] = "shield:"})
    IN  Trim(SubSeq(line, at + 1, Len(line)))

\* entry.trim().replace(/["']/g, '').split(/\s+/)[0]: names are written
\* apart from each other, so the first piece is one token or is empty
BaseShield(entry) ==
    LET shieldEntry == Without(Trim(entry), {"\"", "'"})
    IN  IF shieldEntry = <<>> \/ Head(shieldEntry) = " " THEN ""
        ELSE Head(shieldEntry)

\* the reserved name is listed like any other
AddShieldAnyName(p, baseShield) ==
    IF baseShield # "" /\ ~Includes(p.shields, baseShield)
    THEN WithBucket([p EXCEPT !.shields = Append(@, baseShield)], baseShield)
    ELSE p

\* the body of entries.forEach
AddShield(p, baseShield) ==
    IF baseShield # "" /\ baseShield # "settings_reset"
       /\ ~Includes(p.shields, baseShield)
    THEN WithBucket([p EXCEPT !.shields = Append(@, baseShield)], baseShield)
    ELSE p

\* entries.forEach
RECURSIVE BuildConfigEntries(_, _)
BuildConfigEntries(p, entries) ==
    IF entries = <<>> THEN p
    ELSE BuildConfigEntries(AddShield(p, BaseShield(Head(entries))), Tail(entries))

\* the body of lines.forEach
BuildConfigLine(p, line) ==
    IF HasShieldValue(line)
    THEN BuildConfigEntries(p, SplitOn(Without(ShieldValue(line), {"[", "]"}), ","))
    ELSE p

RECURSIVE BuildConfigLines(_, _)
BuildConfigLines(p, lines) ==
    IF lines = <<>> THEN p
    ELSE BuildConfigLines(BuildConfigLine(p, Head(lines)), Tail(lines))

RECURSIVE BuildConfigFiles(_, _)
BuildConfigFiles(p, files) ==
    IF files = <<>> THEN p
    ELSE BuildConfigFiles(
            IF NameEndsWith(Head(files).name, "build.yaml")
            THEN BuildConfigLines(p, Head(files).lines) ELSE p,
            Tail(files))

findAndParseBuildConfig(p) ==
    BuildConfigFiles([p EXCEPT !.shields = <<>>], p.rawFiles)

-----------------------------------------------------------------------------
(* findAndParsePhysicalLayout *)

\* the tokens that /\d+/ matches, and those that /\(-?\d+\)|-?\d+/ matches
UnsignedTokens == {"0", "50", "100", "150", "200", "1500"}
RotationTokens == UnsignedTokens \cup {"-1500", "(-9000)", "(1500)"}

\* parseInt(token.replace(/[()]/g, ''))
IntOf(token) ==
    CASE token = "0" -> 0
      [] token = "50" -> 50
      [] token = "100" -> 100
      [] token = "150" -> 150
      [] token = "200" -> 200
      [] token \in {"1500", "(1500)"} -> 1500
      [] token = "-1500" -> 0 - 1500
      [] token = "(-9000)" -> 0 - 9000

\* keyAttrsRegex on the tokens that follow one `&key_physical_attrs`
KeyAttrsMatch(entry) ==
    /\ Len(entry) >= 7
    /\ \A i \in 1..4 : entry[i] \in UnsignedTokens
    /\ \/ /\ entry[5] \in RotationTokens
          /\ entry[6] \in UnsignedTokens
          /\ entry[7] \in UnsignedTokens
       \/ \A i \in 5..7 : entry[i] = "0"

\* the key object pushed for a matching entry; a number x stands for
\* the value x / 100 of the program
KeyOf(entry) ==
    [w |-> IntOf(entry[1]), h |-> IntOf(entry[2]), x |-> IntOf(entry[3]),
     y |-> IntOf(entry[4]), r |-> IntOf(entry[5]), rx |-> IntOf(entry[6]),
     ry |-> IntOf(entry[7])]

\* the keys that the while loop of parseKeysFromContent pushes for a block
KeysOfBlock(block) ==
    LET matching == SelectSeq(block, KeyAttrsMatch)
    IN  [i \in 1..Len(matching) |-> KeyOf(matching[i])]

\* layoutRegex.exec(content.substring(index)): the first keys block at or
\* after node `from` of the file
NodesWithKeys(file, from) ==
    {i \in from..Len(file.nodes) : file.nodes[i].keys # NoProperty}

\* parseKeysFromContent on the text of `file` from its node `from` on:
\* the parser after it, and what it returns
parseKeysFromContent(p, file, from) ==
    IF NodesWithKeys(file, from) = {} THEN [parser |-> p, found |-> FALSE]
    ELSE LET keys == KeysOfBlock(file.nodes[Min(NodesWithKeys(file, from))].keys)
         IN  [parser |-> [p EXCEPT !.result.physicalKeys = @ \o keys],
              found |-> Len(keys) > 0]

\* chosenRegex over Object.values(this.rawFiles): the label of the first
\* file that has a chosen reference, "" when there is none
TargetLabel(files) ==
    LET having == {i \in 1..Len(files) : files[i].chosen # ""}
    IN  IF having = {} THEN "" ELSE files[Min(having)].chosen

\* labelRegex.exec(content): the pattern is not anchored on its left, so it
\* matches a node whose label ends with the target label; 0 without match
LabelStart(file, targetLabel) ==
    LET matching == {i \in 1..Len(file.nodes) :
                        NameEndsWith(file.nodes[i].label, targetLabel)}
    IN  IF matching = {} THEN 0 ELSE Min(matching)

\* compatibleRegex.exec(content)
CompatibleStart(file) ==
    LET matching == {i \in 1..Len(file.nodes) : file.nodes[i].compatible}
    IN  IF matching = {} THEN 0 ELSE Min(matching)

\* a pass that goes on after a block gave keys
LayoutStepNoReturn(acc, file, from) ==
    IF from = 0 THEN acc
    ELSE LET r == parseKeysFromContent(acc.parser, file, from)
         IN  [parser |-> r.parser, found |-> acc.found \/ r.found]

\* one iteration of a pass over Object.entries(this.rawFiles), for a file
\* whose node `from` the pass looks for (0: no such node); `return` leaves
\* the remaining files unread
LayoutStep(acc, file, from) ==
    IF acc.found \/ from = 0 THEN acc
    ELSE parseKeysFromContent(acc.parser, file, from)

\* Pass 1: Try explicit target label
RECURSIVE LabelPass(_, _, _)
LabelPass(acc, files, targetLabel) ==
    IF files = <<>> THEN acc
    ELSE LabelPass(LayoutStep(acc, Head(files), LabelStart(Head(files), targetLabel)),
                   Tail(files), targetLabel)

\* Pass 2: Fallback
RECURSIVE CompatiblePass(_, _)
CompatiblePass(acc, files) ==
    IF files = <<>> THEN acc
    ELSE CompatiblePass(LayoutStep(acc, Head(files), CompatibleStart(Head(files))),
                        Tail(files))

findAndParsePhysicalLayout(p) ==
    LET targetLabel == TargetLabel(p.rawFiles)
        none == [parser |-> p, found |-> FALSE]
        pass1 == IF targetLabel = "" THEN none
                 ELSE LabelPass(none, p.rawFiles, targetLabel)
    IN  IF pass1.found THEN pass1.parser
        ELSE CompatiblePass([parser |-> pass1.parser, found |-> FALSE],
                            p.rawFiles).parser

-----------------------------------------------------------------------------
(* findAndParseMatrixTransform *)

\* the first shield of this.shields whose name the file name includes,
\* 'common' when there is none
RECURSIVE ShieldOfFile(_, _)
ShieldOfFile(shields, name) ==
    IF shields = <<>> THEN "common"
    ELSE IF NameIncludes(name, Head(shields)) THEN Head(shields)
    ELSE ShieldOfFile(Tail(shields), name)

\* this.result.pinMap[shieldName].colOffset = parseInt(match[1])
SetColOffset(p, s, value) ==
    [p EXCEPT !.result.pinMap[BucketIndex(p, s)].colOffset = value]

SetRowOffset(p, s, value) ==
    [p EXCEPT !.result.pinMap[BucketIndex(p, s)].rowOffset = value]

\* the pairs pushed with row and column exchanged
MapOfBlockSwapped(block) ==
    [i \in 1..Len(block) |-> [r |-> block[i][2], c |-> block[i][1]]]

\* the pairs that the while loop over rcRegex pushes for a map block; a
\* block is the sequence of its RC(r, c) macros, each the pair <<r, c>>
MapOfBlock(block) ==
    [i \in 1..Len(block) |-> [r |-> block[i][1], c |-> block[i][2]]]

\* the map of the first file that has one is kept
LongerMapFirstFound(current, map) ==
    IF current = <<>> THEN map ELSE current

\* if (map.length > this.result.matrixMap.length) this.result.matrixMap = map
LongerMap(current, map) ==
    IF Len(map) > Len(current) THEN map ELSE current

\* one iteration of the loop of findAndParseMatrixTransform; only the first
\* map block of a file is read
MatrixTransformFile(p, file) ==
    LET shieldName == ShieldOfFile(p.shields, file.name)
        p1 == IF file.maps # <<>>
              THEN [p EXCEPT !.result.matrixMap =
                        LongerMap(@, MapOfBlock(file.maps[1]))]
              ELSE p
        p2 == IF file.colOffset # Undefined /\ shieldName # "common"
              THEN SetColOffset(WithBucket(p1, shieldName), shieldName, file.colOffset)
              ELSE p1
    IN  IF file.rowOffset # Undefined /\ shieldName # "common"
        THEN SetRowOffset(WithBucket(p2, shieldName), shieldName, file.rowOffset)
        ELSE p2

RECURSIVE MatrixTransformFiles(_, _)
MatrixTransformFiles(p, files) ==
    IF files = <<>> THEN p
    ELSE MatrixTransformFiles(MatrixTransformFile(p, Head(files)), Tail(files))

findAndParseMatrixTransform(p) == MatrixTransformFiles(p, p.rawFiles)

-----------------------------------------------------------------------------
(* findAndParsePinConfig *)

PinNumbers == <<"0", "1", "2", "3", "4", "5", "6", "7">>
IntPinNames == <<"int 0", "int 1", "int 2", "int 3", "int 4", "int 5", "int 6", "int 7">>

\* `${phandle} ${pinNum}`.replace('&', '')
Readable(phandle, pinNum) ==
    LET n == CHOOSE i \in 1..Len(PinNumbers) : PinNumbers[i] = pinNum
    IN  CASE phandle = "&row" -> RowPinNames[n]
          [] phandle = "&col" -> ColPinNames[n]
          [] phandle = "&gpio" -> GpioPinNames[n]
          [] phandle = "&input" -> InputPinNames[n]
          [] phandle = "&int" -> IntPinNames[n]

StartsWithAmpersand(token) == token \in {"&row", "&col", "&gpio", "&input", "&int"}

\* extractGpioList: the property value is the sequence of the tokens that
\* inner.split(/[\s,<>]+/) gives; every token that starts with `&` makes,
\* with the token after it, the pin of the next ordinal
extractGpioList(value) ==
    IF value = NoProperty THEN <<>>
    ELSE LET at == SelectSeq([i \in 1..Len(value) |-> i],
                             LAMBDA i : StartsWithAmpersand(value[i]))
         IN  [k \in 1..Len(at) |-> Readable(value[at[k]], value[at[k] + 1])]

\* Object.assign(target, pins) on objects keyed by the ordinals 0, 1, ...
Assign(target, pins) ==
    [i \in 1..(IF Len(pins) > Len(target) THEN Len(pins) ELSE Len(target)) |->
        IF i <= Len(pins) THEN pins[i] ELSE target[i]]

\* every file is applied to every shield
TargetSidesEveryShield(p, side) == p.shields

\* const targetSides = side === 'common' ? this.shields : [side]
TargetSides(p, side) == IF side = "common" THEN p.shields ELSE <<side>>

\* the body of the first targetSides.forEach (standard matrix)
StandardPins(p, s, rowGpios, colGpios) ==
    LET q == WithBucket(p, s)
        b == BucketIndex(q, s)
    IN  [q EXCEPT !.result.pinMap[b].row =
                        IF Len(rowGpios) > 0 THEN Assign(@, rowGpios) ELSE @,
                  !.result.pinMap[b].col =
                        IF Len(colGpios) > 0 THEN Assign(@, colGpios) ELSE @]

\* the body of the second targetSides.forEach (charlieplex)
CharliePins(p, s, gpios, intGpios) ==
    LET q == WithBucket(p, s)
        b == BucketIndex(q, s)
    IN  [q EXCEPT !.result.pinMap[b].gpios =
                        IF Len(gpios) > 0 THEN Assign(@, gpios) ELSE @,
                  !.result.pinMap[b].interrupt =
                        IF Len(intGpios) > 0 THEN intGpios[1] ELSE @,
                  !.result.diodeDirection =
                        IF Len(gpios) > 0 THEN "col2row" ELSE @]

\* the body of the third targetSides.forEach (direct)
DirectPins(p, s, directGpios) ==
    LET q == WithBucket(p, s)
        b == BucketIndex(q, s)
    IN  [q EXCEPT !.result.pinMap[b].direct =
                        IF Len(directGpios) > 0 THEN Assign(@, directGpios) ELSE @,
                  !.result.diodeDirection =
                        IF Len(directGpios) > 0 THEN "row2col" ELSE @]

RECURSIVE StandardSides(_, _, _, _)
StandardSides(p, sides, rowGpios, colGpios) ==
    IF sides = <<>> THEN p
    ELSE StandardSides(StandardPins(p, Head(sides), rowGpios, colGpios),
                       Tail(sides), rowGpios, colGpios)

RECURSIVE CharlieSides(_, _, _, _)
CharlieSides(p, sides, gpios, intGpios) ==
    IF sides = <<>> THEN p
    ELSE CharlieSides(CharliePins(p, Head(sides), gpios, intGpios),
                      Tail(sides), gpios, intGpios)

RECURSIVE DirectSides(_, _, _)
DirectSides(p, sides, directGpios) ==
    IF sides = <<>> THEN p
    ELSE DirectSides(DirectPins(p, Head(sides), directGpios), Tail(sides), directGpios)

\* content.includes('row-gpios') || content.includes('col-gpios')
HasRowOrCol(file) == file.rowGpios # NoProperty \/ file.colGpios # NoProperty

isCharlieMode(file) ==
    \/ "zmk,kscan-gpio-charlieplex" \in file.compatible
    \/ file.gpios # NoProperty /\ ~HasRowOrCol(file)

isDirectMode(file) ==
    \/ "zmk,kscan-gpio-direct" \in file.compatible
    \/ file.inputGpios # NoProperty /\ ~HasRowOrCol(file)

\* one iteration of the loop of findAndParsePinConfig
PinConfigFile(p, file) ==
    LET p0 == IF file.diode # "" THEN [p EXCEPT !.result.diodeDirection = file.diode]
              ELSE p
        side == ShieldOfFile(p.shields, file.name)
        targetSides == TargetSides(p, side)
        p1 == IF HasRowOrCol(file)
              THEN StandardSides(p0, targetSides, extractGpioList(file.rowGpios),
                                 extractGpioList(file.colGpios))
              ELSE p0
        p2 == IF isCharlieMode(file)
              THEN CharlieSides(p1, targetSides, extractGpioList(file.gpios),
                                extractGpioList(file.interruptGpios))
              ELSE p1
    IN  IF targetSides = <<>> /\ side = "common" THEN p0
        ELSE IF isDirectMode(file)
             THEN DirectSides(p2, targetSides, extractGpioList(file.inputGpios))
             ELSE p2

RECURSIVE PinConfigFiles(_, _)
PinConfigFiles(p, files) ==
    IF files = <<>> THEN p
    ELSE PinConfigFiles(PinConfigFile(p, Head(files)), Tail(files))

findAndParsePinConfig(p) == PinConfigFiles(p, p.rawFiles)

-----------------------------------------------------------------------------
(* parse *)

\* parse(filesData) of a new parser
parse(files) ==
    LET p == [NewParser EXCEPT
                !.rawFiles = [i \in 1..Len(files) |-> stripComments(files[i])]]
    IN  findAndParsePinConfig(
            findAndParseMatrixTransform(
                findAndParsePhysicalLayout(
                    findAndParseBuildConfig(p))))

\* const parser = new ZMKParser(); parser.parse(filesData)
Parse ==
    /\ parser = NewParser
    /\ filesData # <<>>
    /\ parser' = parse(filesData)
    /\ UNCHANGED <<parsedData, selectedIndices, issueMapping, resultHidden,
                   failures, analyzed, calls, repeated, filesData,
                   status, debugHidden, manualHidden, instructionHidden,
                   loads, parsedOwner>>

NextParse == Parse

\* let parsedData = {...}: the topology the script starts with
InitialParsedData ==
    [physicalKeys |-> <<>>, matrixMap |-> <<>>,
     pinMap |-> <<[name |-> "left"], [name |-> "right"]>>,
     matrixTransform |-> [rows |-> 0, cols |-> 0], database |-> NoDatabase]

\* the state in which the files of a corpus are about to be parsed
InitParse(corpora) ==
    /\ parsedData = InitialParsedData
    /\ selectedIndices = <<>>
    /\ issueMapping = <<>>
    /\ resultHidden = TRUE
    /\ failures = <<>>
    /\ analyzed = FALSE
    /\ calls = 0
    /\ repeated = FALSE
    /\ filesData \in corpora
    /\ parser = NewParser
    /\ status = "loading"
    /\ debugHidden = TRUE
    /\ manualHidden = TRUE
    /\ instructionHidden = FALSE
    /\ loads = <<>>
    /\ parsedOwner = 0

\* the sequences of one to MaxFiles files of different names, taken from a
\* set of files, in every order
Corpora(files) ==
    {c \in UNION {[1..n -> files] : n \in 1..MaxFiles} :
        \A i, j \in 1..Len(c) : i # j => c[i].name # c[j].name}

-----------------------------------------------------------------------------
(* GitHubFetcher and handleRepoLoad *)

\* an entry of the recursive tree of a repository: a blob with its text, or
\* a directory
Blob(file) == [type |-> "blob", path |-> file.name, file |-> file]
Directory(path) == [type |-> "tree", path |-> path, file |-> File(path)]

\* a repository on GitHub: its tree in the order of the API and the database
\* file that fetchDatabase finds in it, if any
Repository(name, tree, database) ==
    [name |-> name, tree |-> tree, database |-> database]

\* the filter of fetchRelevantFiles
IsRelevant(entry) ==
    /\ entry.type = "blob"
    /\ \/ NameEndsWith(entry.path, ".dtsi")
       \/ NameEndsWith(entry.path, ".overlay")
       \/ NameEndsWith(entry.path, ".keymap")
       \/ NameEndsWith(entry.path, ".conf")
       \/ NameEndsWith(entry.path, "build.yaml")

\* fetchRelevantFiles when it returns: the relevant files of the tree, in
\* tree order, without those whose fetchContent failed
fetchRelevantFiles(repo, failed) ==
    LET fetched == SelectSeq(repo.tree,
                             LAMBDA e : IsRelevant(e) /\ e.path \notin failed)
    IN  [i \in 1..Len(fetched) |-> fetched[i].file]

\* an invocation of handleRepoLoad suspended on fetchRelevantFiles; returned
\* tells whether fetchRelevantFiles returned, filesData and result are what it
\* returned and what the parser made of it, statuses the classes this
\* invocation gave the status line
NewLoad(repo) ==
    [pc |-> "fetchRelevantFiles", repo |-> repo, returned |-> FALSE,
     filesData |-> <<>>, result |-> NewParser.result,
     statuses |-> <<"loading">>]

\* parsedData = parser.getResult(): the object has no database yet
Loaded(result) ==
    [physicalKeys |-> result.physicalKeys, matrixMap |-> result.matrixMap,
     pinMap |-> result.pinMap, diodeDirection |-> result.diodeDirection,
     database |-> NoProperty]

\* the check is skipped
NoPhysicalKeysIgnored(result) == Len(result.physicalKeys) < 0

\* parsedData.physicalKeys.length === 0
NoPhysicalKeys(result) == Len(result.physicalKeys) = 0

\* if (!repo) { setStatus(..., "error"); return; }
handleRepoLoadNoName ==
    /\ status' = "error"
    /\ UNCHANGED <<parsedData, selectedIndices, issueMapping, resultHidden,
                   failures, analyzed, calls, repeated, filesData, parser,
                   debugHidden, manualHidden, instructionHidden, loads,
                   parsedOwner>>

\* handleRepoLoad up to its first await
handleRepoLoad(repo) ==
    /\ Len(loads) < MaxLoads
    /\ status' = "loading"
    /\ loads' = Append(loads, NewLoad(repo))
    /\ UNCHANGED <<parsedData, selectedIndices, issueMapping, resultHidden,
                   failures, analyzed, calls, repeated, filesData, parser,
                   debugHidden, manualHidden, instructionHidden, parsedOwner>>

\* the catch block of handleRepoLoad, for invocation k
Caught(k, load) ==
    /\ status' = "error"
    /\ debugHidden' = TRUE
    /\ loads' = [loads EXCEPT ![k] = [load EXCEPT !.pc = "done",
                                                  !.statuses = Append(@, "error")]]

\* getDefaultBranch or getRecursiveTree throws
FetchThrows(k) ==
    /\ k \in 1..Len(loads)
    /\ loads[k].pc = "fetchRelevantFiles"
    /\ Caught(k, loads[k])
    /\ UNCHANGED <<parsedData, selectedIndices, issueMapping, resultHidden,
                   failures, analyzed, calls, repeated, filesData, parser,
                   manualHidden, instructionHidden, parsedOwner>>

\* fetchRelevantFiles returns, the content of the files in `failed` could not
\* be fetched: handleRepoLoad up to its second await, or to its end
FetchReturns(k, repo, failed) ==
    /\ k \in 1..Len(loads)
    /\ loads[k].pc = "fetchRelevantFiles"
    /\ loads[k].repo = repo.name
    /\ LET files == fetchRelevantFiles(repo, failed)
           got == [loads[k] EXCEPT !.returned = TRUE, !.filesData = files]
       IN  IF files = <<>>
           THEN /\ Caught(k, got)
                /\ UNCHANGED <<parsedData, parsedOwner>>
           ELSE LET result == parse(files).result
                    parsed == [got EXCEPT !.result = result,
                                          !.statuses = Append(@, "loading")]
                IN  /\ parsedData' = Loaded(result)
                    /\ parsedOwner' = k
                    /\ IF NoPhysicalKeys(result)
                       THEN Caught(k, parsed)
                       ELSE /\ status' = "loading"
                            /\ loads' = [loads EXCEPT ![k] =
                                    [parsed EXCEPT !.pc = "fetchDatabase",
                                                   !.statuses = @ \o <<"success", "loading">>]]
                            /\ UNCHANGED debugHidden
    /\ UNCHANGED <<selectedIndices, issueMapping, resultHidden, failures,
                   analyzed, calls, repeated, filesData, parser,
                   manualHidden, instructionHidden>>

\* fetchDatabase returns database (or null); handleRepoLoad to its end. The
\* assignment parsedData.database = await ... writes to the object that
\* parsedData was before the await, the test after it reads the object that
\* parsedData is now
DatabaseReturns(k, repo, database) ==
    /\ k \in 1..Len(loads)
    /\ loads[k].pc = "fetchDatabase"
    /\ loads[k].repo = repo.name
    /\ database \in {repo.database, NoDatabase}
    /\ parsedData' = IF parsedOwner = k
                     THEN [parsedData EXCEPT !.database = database]
                     ELSE parsedData
    /\ manualHidden' = (parsedData'.database \notin {NoDatabase, NoProperty})
    /\ status' = "success"
    /\ debugHidden' = FALSE
    /\ instructionHidden' = TRUE
    /\ loads' = [loads EXCEPT ![k].pc = "done",
                              ![k].statuses = Append(@, "success")]
    /\ UNCHANGED <<selectedIndices, issueMapping, resultHidden, failures,
                   analyzed, calls, repeated, filesData, parser, parsedOwner>>

\* handleManualDatabaseUpload when file.text() or JSON.parse throws
ManualUploadFails ==
    /\ status' = "error"
    /\ UNCHANGED <<parsedData, selectedIndices, issueMapping, resultHidden,
                   failures, analyzed, calls, repeated, filesData, parser,
                   debugHidden, manualHidden, instructionHidden, loads,
                   parsedOwner>>

\* handleManualDatabaseUpload of a file that holds the JSON `database`: the
\* assignment follows the await and writes to the object that parsedData is
\* then; diagnose() runs again when the result area is shown
handleManualDatabaseUpload(database) ==
    /\ parsedData' = [parsedData EXCEPT !.database = database]
    /\ status' = "success"
    /\ manualHidden' = TRUE
    /\ IF resultHidden
       THEN UNCHANGED <<issueMapping, resultHidden, failures, analyzed>>
       ELSE IF Len(selectedIndices) = 0
            THEN /\ resultHidden' = TRUE
                 /\ failures' = <<>>
                 /\ analyzed' = FALSE
                 /\ UNCHANGED issueMapping
            ELSE /\ resultHidden' = FALSE
                 /\ failures' = analyzeFailures(parsedData', selectedIndices)
                 /\ issueMapping' = IssueMappingOf(failures')
                 /\ analyzed' = TRUE
    /\ UNCHANGED <<selectedIndices, calls, repeated, filesData, parser,
                   debugHidden, instructionHidden, loads, parsedOwner>>

InitWith(topologies) ==
    /\ parsedData \in topologies
    /\ selectedIndices = <<>>
    /\ issueMapping = <<>>
    /\ resultHidden = TRUE
    /\ failures = <<>>
    /\ analyzed = FALSE
    /\ calls = 0
    /\ repeated = FALSE
    /\ filesData = <<>>
    /\ parser = NewParser
    /\ status = "success"
    /\ debugHidden = FALSE
    /\ manualHidden = FALSE
    /\ instructionHidden = TRUE
    /\ loads = <<>>
    /\ parsedOwner = 0

\* standard-matrix keyboards: one shield, or two halves split by an offset
StandardTopologies ==
    {Topology(Layout(w, NumKeys), sh) : w \in {2, 3, 4, 5}, sh \in
        {<<Standard("left", 2, 4, "", Undefined, Undefined)>>,
         <<Standard("left", 2, 2, "", Undefined, Undefined),
           Standard("right", 2, 2, "", 2, Undefined)>>,
         <<Standard("left", 1, 4, "", Undefined, Undefined),
           Standard("right", 1, 4, "", Undefined, 1)>>,
         <<Standard("left", 2, 4, "int 0", Undefined, Undefined)>>}}

InitStandard == InitWith(StandardTopologies)

SpecStandard == InitStandard /\ [][Next]_vars

\* direct-wired keyboards: one pin per local column, the pin list shorter
\* than, as long as, or longer than the width of the transform map
DirectTopologies ==
    {Topology(Layout(w, NumKeys), sh) : w \in {3, 5, 6}, sh \in
        {<<Direct("main", 5, Undefined, Undefined)>>,
         <<Direct("main", 2, Undefined, Undefined)>>,
         <<Direct("left", 3, Undefined, Undefined), Direct("right", 3, 3, Undefined)>>,
         <<Direct("left", 3, Undefined, Undefined),
           Standard("right", 2, 3, "", 3, Undefined)>>}}

InitDirect == InitWith(DirectTopologies)

SpecDirect == InitDirect /\ [][Next]_vars

\* charlieplex keyboards: grid maps whose ordinals serve both as row and as
\* column, and maps with a key for every ordered pair of distinct pins
CharlieTopologies ==
    {Topology(m, sh) :
        m \in {Layout(2, NumKeys), Layout(3, NumKeys), Layout(5, NumKeys),
               CharlieLayout(3, NumKeys), CharlieLayout(4, NumKeys)},
        sh \in
        {<<Charlie("main", 4, "", Undefined, Undefined)>>,
         <<Charlie("main", 2, "int 0", Undefined, Undefined)>>,
         <<Charlie("left", 3, "", Undefined, Undefined),
           Charlie("right", 3, "", 2, Undefined)>>}}

InitCharlie == InitWith(CharlieTopologies)

SpecCharlie == InitCharlie /\ [][Next]_vars

\* the transform map of a split keyboard whose right half starts at
\* logical column 6
SplitLayout(len) ==
    LET all == <<[r |-> 0, c |-> 0], [r |-> 0, c |-> 6], [r |-> 1, c |-> 7],
                 [r |-> 2, c |-> 8], [r |-> 2, c |-> 2], [r |-> 1, c |-> 0],
                 [r |-> 1, c |-> 6], [r |-> 2, c |-> 0]>>
    IN  SubSeq(all, 1, IF len < Len(all) THEN len ELSE Len(all))

\* keyboards of every kind: split halves with column and row offsets,
\* shields without pins, overlapping offsets, a map shorter than the key list
MixedTopologies ==
    {Topology(m, sh) :
        m \in {Layout(3, NumKeys), Layout(4, NumKeys - 1), SplitLayout(NumKeys)},
        sh \in
        {<<Standard("left", 3, 6, "", Undefined, Undefined),
           Standard("right", 3, 3, "", 6, Undefined)>>,
         <<Standard("left", 2, 2, "", Undefined, Undefined),
           Direct("right", 2, 2, Undefined)>>,
         <<Charlie("main", 4, "int 0", Undefined, Undefined)>>,
         <<Direct("left", 3, Undefined, Undefined), NoPins("right", 2, Undefined)>>,
         <<Standard("left", 2, 2, "int 0", Undefined, Undefined),
           Charlie("right", 3, "", 1, 1)>>,
         <<Standard("upper", 2, 4, "", 1, 0), Standard("lower", 2, 4, "", 0, 1)>>,
         <<NoPins("left", Undefined, Undefined), NoPins("right", 2, Undefined)>>}}

Init == InitWith(MixedTopologies)

Spec == Init /\ [][Next]_vars

\* the keyboards on which the history of the calls is followed
CountedTopologies ==
    {Topology(m, sh) :
        m \in {Layout(3, NumKeys), SplitLayout(NumKeys)},
        sh \in
        {<<Standard("left", 3, 6, "", Undefined, Undefined),
           Standard("right", 3, 3, "", 6, Undefined)>>,
         <<Charlie("main", 4, "int 0", Undefined, Undefined)>>,
         <<Standard("left", 2, 2, "", Undefined, Undefined),
           Direct("right", 2, 2, Undefined)>>}}

InitCounted == InitWith(CountedTopologies)

SpecCounted == InitCounted /\ [][NextCounted]_vars

-----------------------------------------------------------------------------
(* Vocabulary of the properties *)

\* the failing set handed to the localizer
Failing == Range(selectedIndices)

\* the names of the valid shields of the loaded topology
ValidNames == Range(validShields(parsedData))

\* the resolution of the keys of the loaded topology (none when no shield is valid)
Pos == IF ValidNames = {} THEN <<>> ELSE Positions(parsedData)

\* the keys that resolve to shield s, given the resolution pos of all keys
KeysOf(pos, s) == {idx \in DOMAIN pos : pos[idx].side = s}

KeysOnRow(pos, s, r) == {idx \in DOMAIN pos : pos[idx].side = s /\ pos[idx].physR = r}
KeysOnCol(pos, s, c) == {idx \in DOMAIN pos : pos[idx].side = s /\ pos[idx].physC = c}

RowsOf(pos, s) == {pos[idx].physR : idx \in KeysOf(pos, s)}
ColsOf(pos, s) == {pos[idx].physC : idx \in KeysOf(pos, s)}

\* the positions in `failures` of the reports of a type for a shield
ReportsOf(type, s) ==
    {i \in 1..Len(failures) : failures[i].type = type /\ failures[i].side = s}

\* report i lists exactly the keys of K, each once
ListsExactly(i, K) ==
    /\ Range(failures[i].indices) = K
    /\ Len(failures[i].indices) = Cardinality(K)

\* strictly more than `tenths` tenths of the keys of K are failing
ExceedsTenths(K, tenths) ==
    Cardinality(K \cap Failing) * 10 > Cardinality(K) * tenths

IsStandardShield(s) ==
    /\ s \in ValidNames
    /\ ~HasGpios(pMapOf(parsedData, s))
    /\ ~HasDirect(pMapOf(parsedData, s))

-----------------------------------------------------------------------------
(* C1: on a standard-matrix shield, a local row (column) gets a `row`      *)
(* (`col`) report if and only if strictly more than 0.6 of its keys are     *)
(* failing; there is one such report and it lists exactly the failing keys *)
(* of that row (column).                                                    *)
C1_StandardLines ==
    analyzed =>
        LET pos == Pos
        IN  \A s \in {n \in ValidNames : IsStandardShield(n)} :
            /\ \A r \in RowsOf(pos, s) :
                LET reps == {i \in ReportsOf("row", s) : failures[i].row = r}
                IN  /\ (reps # {}) <=> ExceedsTenths(KeysOnRow(pos, s, r), 6)
                    /\ Cardinality(reps) <= 1
                    /\ \A i \in reps : ListsExactly(i, KeysOnRow(pos, s, r) \cap Failing)
            /\ \A c \in ColsOf(pos, s) :
                LET reps == {i \in ReportsOf("col", s) : failures[i].col = c}
                IN  /\ (reps # {}) <=> ExceedsTenths(KeysOnCol(pos, s, c), 6)
                    /\ Cardinality(reps) <= 1
                    /\ \A i \in reps : ListsExactly(i, KeysOnCol(pos, s, c) \cap Failing)

\* a row of four keys with three failing is reported, while a column of the
\* same shield with half of its keys failing is not
C1_Witness ==
    /\ analyzed
    /\ LET pos == Pos
       IN  \E s \in {n \in ValidNames : IsStandardShield(n)} :
            /\ \E r \in RowsOf(pos, s) :
                /\ Cardinality(KeysOnRow(pos, s, r)) = 4
                /\ Cardinality(KeysOnRow(pos, s, r) \cap Failing) = 3
                /\ \E i \in ReportsOf("row", s) : failures[i].row = r
            /\ \E c \in ColsOf(pos, s) :
                /\ Cardinality(KeysOnCol(pos, s, c)) = 2
                /\ Cardinality(KeysOnCol(pos, s, c) \cap Failing) = 1
                /\ ~\E i \in ReportsOf("col", s) : failures[i].col = c

-----------------------------------------------------------------------------
\* the direct keys of shield s: its keys whose local column has a direct pin
DirectKeys(pos, s) ==
    {idx \in KeysOf(pos, s) :
        pos[idx].physC < Len(pMapOf(parsedData, s).direct)}

IsDirectShield(s) ==
    /\ s \in ValidNames
    /\ ~HasGpios(pMapOf(parsedData, s))
    /\ HasDirect(pMapOf(parsedData, s))

\* one `direct` report per key of K on shield s, each listing that key alone
\* and naming the pin of its local column
OneDirectPerKey(pos, s, K) ==
    /\ Cardinality(ReportsOf("direct", s)) = Cardinality(K)
    /\ \A idx \in K : \E i \in ReportsOf("direct", s) :
        /\ failures[i].index = idx
        /\ failures[i].indices = <<idx>>
        /\ failures[i].pin = pMapOf(parsedData, s).direct[pos[idx].physC + 1]

\* one `direct_gnd` report for shield s, listing the keys of K, and no
\* `direct` report
OneDirectGnd(s, K) ==
    /\ Cardinality(ReportsOf("direct_gnd", s)) = 1
    /\ \A i \in ReportsOf("direct_gnd", s) : ListsExactly(i, K)
    /\ ReportsOf("direct", s) = {}

(* C2, as stated: on a direct-wired shield with 5 direct keys, 4 failing    *)
(* give five individual `direct` reports and no `direct_gnd`; 5 failing     *)
(* give one `direct_gnd` report listing all 5 keys.                         *)
C2_FiveDirectReports ==
    analyzed =>
        LET pos == Pos
        IN  \A s \in {n \in ValidNames : IsDirectShield(n)} :
            Cardinality(DirectKeys(pos, s)) = 5 =>
                /\ Cardinality(DirectKeys(pos, s) \cap Failing) = 4 =>
                    /\ Cardinality(ReportsOf("direct", s)) = 5
                    /\ ReportsOf("direct_gnd", s) = {}
                /\ Cardinality(DirectKeys(pos, s) \cap Failing) = 5 =>
                    OneDirectGnd(s, DirectKeys(pos, s))

(* C2, amended: on a direct-wired shield with 5 direct keys, 4 failing      *)
(* give four individual `direct` reports, one per failing direct key, and   *)
(* no `direct_gnd`; 5 failing give exactly one `direct_gnd` report listing  *)
(* all 5 keys.                                                              *)
C2_DirectBoundary ==
    analyzed =>
        LET pos == Pos
        IN  \A s \in {n \in ValidNames : IsDirectShield(n)} :
            Cardinality(DirectKeys(pos, s)) = 5 =>
                /\ Cardinality(DirectKeys(pos, s) \cap Failing) = 4 =>
                    /\ OneDirectPerKey(pos, s, DirectKeys(pos, s) \cap Failing)
                    /\ ReportsOf("direct_gnd", s) = {}
                /\ Cardinality(DirectKeys(pos, s) \cap Failing) = 5 =>
                    OneDirectGnd(s, DirectKeys(pos, s))

\* four of the five direct keys of a shield are failing and were analyzed
C2_Witness ==
    /\ analyzed
    /\ LET pos == Pos
       IN  \E s \in {n \in ValidNames : IsDirectShield(n)} :
            /\ Cardinality(DirectKeys(pos, s)) = 5
            /\ Cardinality(DirectKeys(pos, s) \cap Failing) = 4
            /\ Cardinality(ReportsOf("direct", s)) = 4

(* C3: on a direct-GPIO shield with direct keys D and failing direct keys  *)
(* F: if |D| > 2 and |F|/|D| > 0.8, exactly one `direct_gnd` report lists   *)
(* all of D and no `direct` report is emitted; otherwise no `direct_gnd`    *)
(* report is emitted and each key of F gets exactly one `direct` report     *)
(* naming the pin of its local column.                                      *)
C3_DirectShield ==
    analyzed =>
        LET pos == Pos
        IN  \A s \in {n \in ValidNames : IsDirectShield(n)} :
            LET D == DirectKeys(pos, s)
            IN  IF Cardinality(D) > 2 /\ ExceedsTenths(D, 8)
                THEN OneDirectGnd(s, D)
                ELSE /\ ReportsOf("direct_gnd", s) = {}
                     /\ OneDirectPerKey(pos, s, D \cap Failing)

\* a shield with more than 2 direct keys, all failing but one that is not,
\* reported as `direct_gnd` with the key that works listed too
C3_Witness ==
    /\ analyzed
    /\ LET pos == Pos
       IN  \E s \in {n \in ValidNames : IsDirectShield(n)} :
            /\ Cardinality(DirectKeys(pos, s)) > 2
            /\ DirectKeys(pos, s) \ Failing # {}
            /\ \E i \in ReportsOf("direct_gnd", s) :
                Range(failures[i].indices) = DirectKeys(pos, s)

-----------------------------------------------------------------------------
IsCharlieShield(s) ==
    /\ s \in ValidNames
    /\ HasGpios(pMapOf(parsedData, s))

\* the `charlie` reports of shield s for ordinal pin index p
CharlieReportsFor(s, p) == {i \in ReportsOf("charlie", s) : failures[i].index = p}

(* C4: on a charlieplex shield, for every ordinal pin index p in use, with *)
(* the row-role flagged when strictly more than 0.6 of the keys whose local *)
(* row is p are failing and the column-role flagged likewise for the keys   *)
(* whose local column is p: one `charlie` report for p with role "in" when *)
(* only the row-role is flagged, "out" when only the column-role is         *)
(* flagged, "both" when both are, and no `charlie` report for p otherwise.  *)
C4_CharlieRoles ==
    analyzed =>
        LET pos == Pos
        IN  \A s \in {n \in ValidNames : IsCharlieShield(n)} :
            \A p \in RowsOf(pos, s) \cup ColsOf(pos, s) :
                LET inFlag == ExceedsTenths(KeysOnRow(pos, s, p), 6)
                    outFlag == ExceedsTenths(KeysOnCol(pos, s, p), 6)
                    reps == CharlieReportsFor(s, p)
                IN  /\ (~inFlag /\ ~outFlag) => reps = {}
                    /\ (inFlag \/ outFlag) => Cardinality(reps) = 1
                    /\ \A i \in reps :
                        /\ (inFlag /\ ~outFlag) => failures[i].roleFail = "in"
                        /\ (~inFlag /\ outFlag) => failures[i].roleFail = "out"
                        /\ (inFlag /\ outFlag) => failures[i].roleFail = "both"

\* an ordinal used as row by 3 keys and as column by 2, with 2 of the 3
\* row-role keys and none of the column-role keys failing, reported "in"
C4_Witness ==
    /\ analyzed
    /\ LET pos == Pos
       IN  \E s \in {n \in ValidNames : IsCharlieShield(n)} :
            \E p \in RowsOf(pos, s) :
                /\ Cardinality(KeysOnRow(pos, s, p)) = 3
                /\ Cardinality(KeysOnCol(pos, s, p)) = 2
                /\ Cardinality(KeysOnRow(pos, s, p) \cap Failing) = 2
                /\ KeysOnCol(pos, s, p) \cap Failing = {}
                /\ \E i \in CharlieReportsFor(s, p) : failures[i].roleFail = "in"

-----------------------------------------------------------------------------
\* the positions in `failures` of the reports of the given types that list key idx
Listing(types, idx) ==
    {i \in 1..Len(failures) :
        failures[i].type \in types /\ Includes(failures[i].indices, idx)}

\* the `single` reports for key idx
SinglesFor(idx) ==
    {i \in 1..Len(failures) : failures[i].type = "single" /\ failures[i].index = idx}

(* C5, as stated: every failing key that is not listed in any row, col,    *)
(* charlie, direct or interrupt report appears in exactly one `single`      *)
(* report of the returned list.                                             *)
C5_EveryFailingKeySingle ==
    analyzed =>
        \A idx \in Failing :
            Listing({"row", "col", "charlie", "direct", "interrupt"}, idx) = {}
                => Cardinality(SinglesFor(idx)) = 1

(* C5, amended: when at least one shield is valid, every failing key that  *)
(* has a matrixMap entry and is not listed in any row, col, charlie,        *)
(* direct, direct_gnd or interrupt report appears in exactly one `single`   *)
(* report of the returned list.                                             *)
C5_UncoveredKeySingle ==
    analyzed =>
        \A idx \in Failing :
            /\ ValidNames # {}
            /\ HasEntry(parsedData, idx)
            /\ Listing({"row", "col", "charlie", "direct", "direct_gnd",
                        "interrupt"}, idx) = {}
            => /\ Cardinality(SinglesFor(idx)) = 1
               /\ \A i \in SinglesFor(idx) : failures[i].indices = <<idx>>

\* two shields are valid, one failing key is absorbed by a line report and
\* another one is left over as a single
C5_Witness ==
    /\ analyzed
    /\ Cardinality(ValidNames) = 2
    /\ \E idx \in Failing : Listing({"row", "col", "charlie"}, idx) # {}
    /\ \E idx \in Failing :
        /\ Listing({"row", "col", "charlie", "direct", "direct_gnd",
                    "interrupt"}, idx) = {}
        /\ Cardinality(SinglesFor(idx)) = 1

-----------------------------------------------------------------------------
\* the names of all shields of pinMap
ShieldNames == {parsedData.pinMap[i].name : i \in 1..Len(parsedData.pinMap)}

(* C6: a shield gets an `interrupt` report if and only if it has a declared *)
(* interrupt pin, strictly more than 5 keys resolve to it and strictly more *)
(* than 0.8 of them are failing; the report lists every key of the shield,  *)
(* failing or not, and none of them is emitted as `single`.                 *)
C6_Interrupt ==
    analyzed =>
        LET pos == Pos
        IN  \A s \in ShieldNames :
            LET reps == ReportsOf("interrupt", s)
                K == KeysOf(pos, s)
            IN  /\ (reps # {}) <=>
                        /\ HasInterrupt(pMapOf(parsedData, s))
                        /\ Cardinality(K) > 5
                        /\ Cardinality(K \cap Failing) * 10 > Cardinality(K) * 8
                /\ Cardinality(reps) <= 1
                /\ \A i \in reps :
                    /\ ListsExactly(i, K)
                    /\ failures[i].pin = pMapOf(parsedData, s).interrupt
                    /\ \A idx \in K : SinglesFor(idx) = {}

\* an interrupt report that lists a key that is not failing
C6_Witness ==
    /\ analyzed
    /\ \E i \in 1..Len(failures) :
        /\ failures[i].type = "interrupt"
        /\ Range(failures[i].indices) \ Failing # {}
        /\ Len(failures[i].indices) > 5

-----------------------------------------------------------------------------
\* the valid shields whose offsets are both at or below the entry m
Qualifying(m) ==
    {s \in ValidNames :
        /\ OrZero(pMapOf(parsedData, s).rowOffset) <= m.r
        /\ OrZero(pMapOf(parsedData, s).colOffset) <= m.c}

OffsetSum(s) ==
    OrZero(pMapOf(parsedData, s).rowOffset) + OrZero(pMapOf(parsedData, s).colOffset)

(* C7: a key with logical (row, col) resolves to a valid shield whose       *)
(* offsets are both at or below (row, col) and whose offset sum is the      *)
(* largest among such shields (whenever there is one), its local            *)
(* coordinates are (row - rowOffset, col - colOffset) of that shield, and   *)
(* every report that lists the key is a report of that shield.              *)
C7_ShieldResolution ==
    analyzed =>
        LET pos == Pos
        IN  \A idx \in DOMAIN pos :
            LET m == EntryOf(parsedData, idx)
                s == pos[idx].side
                Q == Qualifying(m)
            IN  Q # {} =>
                    /\ s \in Q
                    /\ \A t \in Q : OffsetSum(t) <= OffsetSum(s)
                    /\ pos[idx].physR = m.r - OrZero(pMapOf(parsedData, s).rowOffset)
                    /\ pos[idx].physC = m.c - OrZero(pMapOf(parsedData, s).colOffset)
                    /\ \A i \in 1..Len(failures) :
                        Includes(failures[i].indices, idx) => failures[i].side = s

\* the key at (row 2, col 8), with a shield at column offset 6 and another
\* valid shield at offset 0, reported at local (2, 2) of the former
C7_Witness ==
    /\ analyzed
    /\ LET pos == Pos
       IN  \E idx \in DOMAIN pos :
            /\ EntryOf(parsedData, idx) = [r |-> 2, c |-> 8]
            /\ Cardinality(Qualifying(EntryOf(parsedData, idx))) = 2
            /\ OrZero(pMapOf(parsedData, pos[idx].side).colOffset) = 6
            /\ pos[idx].physR = 2
            /\ pos[idx].physC = 2
            /\ \E i \in 1..Len(failures) :
                /\ Includes(failures[i].indices, idx)
                /\ failures[i].side = pos[idx].side
                /\ failures[i].type = "row"
                /\ failures[i].row = 2

-----------------------------------------------------------------------------
-----------------------------------------------------------------------------
\* the place of shield s in shield-discovery order
DiscoveryIndex(s) == CHOOSE i \in 1..Len(parsedData.pinMap) : parsedData.pinMap[i].name = s

\* the place of a report type within the reports of one shield
TypeRank(type) ==
    CASE type = "interrupt" -> 0
      [] type \in {"charlie", "direct", "direct_gnd", "row"} -> 1
      [] type = "col" -> 2
      [] type = "single" -> 3

(* C9: the reports of one shield are contiguous and the shields appear in   *)
(* shield-discovery order; within a shield the interrupt report precedes    *)
(* every wiring-mode report, rows precede columns, and every single report  *)
(* comes after all of them.                                                 *)
C9_ReportOrder ==
    analyzed =>
        \A i, j \in 1..Len(failures) :
            i < j =>
                /\ DiscoveryIndex(failures[i].side) <= DiscoveryIndex(failures[j].side)
                /\ failures[i].side = failures[j].side
                    => TypeRank(failures[i].type) <= TypeRank(failures[j].type)

\* reports of two shields, the first with a row report, a column report and
\* a single report, in that order
C9_Witness ==
    /\ analyzed
    /\ \E i, j, k, l \in 1..Len(failures) :
        /\ i < j /\ j < k /\ k < l
        /\ failures[i].type = "row"
        /\ failures[j].type = "col"
        /\ failures[k].type = "single"
        /\ failures[i].side = failures[j].side
        /\ failures[j].side = failures[k].side
        /\ failures[l].side # failures[k].side

-----------------------------------------------------------------------------
-----------------------------------------------------------------------------
\* a shield with at least one pin in its row, col, gpios or direct list
HasPins(p) == Len(p.row) + Len(p.col) + Len(p.gpios) + Len(p.direct) > 0

PinnedNames ==
    {parsedData.pinMap[i].name :
        i \in {j \in 1..Len(parsedData.pinMap) : HasPins(parsedData.pinMap[j])}}

\* the topology without the shields that have no pin at all
WithoutUnpinned(pd) == [pd EXCEPT !.pinMap = SelectSeq(pd.pinMap, HasPins)]

(* C11: a shield whose row, col, gpios and direct lists are all empty is   *)
(* the shield of no report, the returned list is the one the topology       *)
(* without that shield gives (its offsets take no part in the resolution),  *)
(* and when no shield has a pin the returned list is empty.                 *)
C11_UnpinnedShieldExcluded ==
    analyzed =>
        /\ \A i \in 1..Len(failures) : failures[i].side \in PinnedNames
        /\ failures = analyzeFailures(WithoutUnpinned(parsedData), selectedIndices)
        /\ PinnedNames = {} => failures = <<>>

\* a failing key at or beyond the offsets of a shield without pins, reported
\* for another shield
C11_Witness ==
    /\ analyzed
    /\ \E j \in 1..Len(parsedData.pinMap) :
        LET p == parsedData.pinMap[j]
        IN  /\ ~HasPins(p)
            /\ OrZero(p.colOffset) > 0
            /\ \E idx \in Failing :
                /\ HasEntry(parsedData, idx)
                /\ EntryOf(parsedData, idx).c >= OrZero(p.colOffset)
                /\ EntryOf(parsedData, idx).r >= OrZero(p.rowOffset)
                /\ \E i \in 1..Len(failures) :
                    /\ Includes(failures[i].indices, idx)
                    /\ failures[i].side # p.name

-----------------------------------------------------------------------------
\* the physical keys that have no matrixMap entry
NoEntryKeys ==
    {idx \in 0 .. (Len(parsedData.physicalKeys) - 1) : ~HasEntry(parsedData, idx)}

WithEntry(selected) == SelectSeq(selected, LAMBDA idx : HasEntry(parsedData, idx))

(* C12: a key without matrixMap entry is resolved to no shield and counted  *)
(* in no total, no report lists it, and the returned list is the one that   *)
(* the selection without such keys gives.                                   *)
C12_NoEntryKeySkipped ==
    analyzed =>
        /\ DOMAIN Pos \cap NoEntryKeys = {}
        /\ \A i \in 1..Len(failures) :
            /\ Range(failures[i].indices) \cap NoEntryKeys = {}
            /\ failures[i].index \notin NoEntryKeys
        /\ failures = analyzeFailures(parsedData, WithEntry(selectedIndices))

\* a key without entry is failing together with the key at logical (0, 0),
\* which is reported alone
C12_Witness ==
    /\ analyzed
    /\ Failing \cap NoEntryKeys # {}
    /\ \E i \in 1..Len(failures) :
        \E idx \in Range(failures[i].indices) :
            /\ EntryOf(parsedData, idx) = [r |-> 0, c |-> 0]
            /\ failures[i].type = "single"

-----------------------------------------------------------------------------
(* Corpora for the physical layout *)

Node(label, compatible, keys) ==
    [label |-> label, compatible |-> compatible, keys |-> keys]

\* `&key_physical_attrs 100 100 x 0 0 0 0`
PlainKey(x) == <<"100", "100", x, "0", "0", "0", "0">>
\* `&key_physical_attrs 100 150 100 50 (-9000) 50 50`
RotatedKey == <<"100", "150", "100", "50", "(-9000)", "50", "50">>
\* entries that keyAttrsRegex does not match: no rotation triple, and a
\* negative rotation origin
ShortEntry == <<"100", "100", "0", "0">>
NegativeOriginEntry == <<"100", "100", "0", "0", "0", "-1500", "0">>

LayoutFiles ==
    {[File("boards/shields/foo/foo.dtsi") EXCEPT
        !.chosen = "layout0",
        !.nodes = <<Node("layout0", TRUE, <<PlainKey("0"), ShortEntry, RotatedKey>>)>>],
     [File("config/keyboard.dtsi") EXCEPT
        !.nodes = <<Node("layout0", TRUE, <<ShortEntry, NegativeOriginEntry>>)>>],
     [File("boards/shields/bar/bar.overlay") EXCEPT
        !.nodes = <<Node("layout1", TRUE,
                         <<PlainKey("0"), PlainKey("100"), PlainKey("200")>>)>>],
     [File("boards/shields/foo/foo_l.overlay") EXCEPT
        !.chosen = "layout1",
        !.nodes = <<Node("layout0", FALSE, NoProperty),
                    Node("kscan0", FALSE, <<PlainKey("100")>>)>>],
     [File("boards/shields/foo/foo_r.overlay") EXCEPT
        !.nodes = <<Node("layout1", TRUE, NoProperty)>>],
     File("config/keyboard.keymap")}

InitLayout == InitParse(Corpora(LayoutFiles))

SpecLayout == InitLayout /\ [][NextParse]_vars

\* the parser has parsed the corpus
Parsed == parser # NewParser

\* the label of the chosen reference of the corpus: that of the first file
\* that has one
ChosenLabel ==
    IF \A i \in 1..Len(filesData) : filesData[i].chosen = "" THEN ""
    ELSE filesData[Min({i \in 1..Len(filesData) : filesData[i].chosen # ""})].chosen

\* a key entry with its four mandatory integers and its rotation triple
WellFormedEntry(entry) ==
    /\ Len(entry) >= 7
    /\ \A i \in {1, 2, 3, 4, 6, 7} : entry[i] \in UnsignedTokens
    /\ entry[5] \in RotationTokens

\* the nodes of a file that a phase looks for: the node named by the chosen
\* reference (phase 1), a node with the physical-layout compatible (phase 2)
PhaseNodes(phase, file) ==
    {i \in 1..Len(file.nodes) :
        IF phase = 1 THEN ChosenLabel # "" /\ file.nodes[i].label = ChosenLabel
        ELSE file.nodes[i].compatible}

\* the keys that a phase gets from a file: the well-formed entries, in source
\* order, of the nearest keys block that follows the node it looks for
Yield(phase, file) ==
    IF PhaseNodes(phase, file) = {} THEN <<>>
    ELSE LET blocks == {i \in Min(PhaseNodes(phase, file))..Len(file.nodes) :
                            file.nodes[i].keys # NoProperty}
         IN  IF blocks = {} THEN <<>>
             ELSE LET good == SelectSeq(file.nodes[Min(blocks)].keys, WellFormedEntry)
                  IN  [k \in 1..Len(good) |-> KeyOf(good[k])]

\* file i is the first file of the phase that yields a key, and for phase 2
\* no file yields a key in phase 1
WinsLayout(phase, i) ==
    /\ Yield(phase, filesData[i]) # <<>>
    /\ \A j \in 1..(i - 1) : Yield(phase, filesData[j]) = <<>>
    /\ phase = 2 => \A j \in 1..Len(filesData) : Yield(1, filesData[j]) = <<>>

(* C13: physicalKeys holds exactly the well-formed entries, in source       *)
(* order, of the keys block of the first file that yields a key in phase 1  *)
(* (node named by the chosen reference), or, when phase 1 yields no key in  *)
(* any file, of the first file that yields a key in phase 2 (compatible     *)
(* node); it is empty when no file yields a key in either phase.            *)
C13_FirstMatchWins ==
    Parsed =>
        IF \E phase \in {1, 2}, i \in 1..Len(filesData) : WinsLayout(phase, i)
        THEN \E phase \in {1, 2}, i \in 1..Len(filesData) :
                /\ WinsLayout(phase, i)
                /\ parser.result.physicalKeys = Yield(phase, filesData[i])
        ELSE parser.result.physicalKeys = <<>>

\* the first file has the chosen node but a block without any well-formed
\* entry, the second one wins phase 1 with a block that has a malformed
\* entry, and a third file holds a block that phase 2 would take
C13_Witness ==
    /\ Parsed
    /\ Len(filesData) = 3
    /\ PhaseNodes(1, filesData[1]) # {}
    /\ Yield(1, filesData[1]) = <<>>
    /\ WinsLayout(1, 2)
    /\ \E n \in 1..Len(filesData[2].nodes) :
        /\ filesData[2].nodes[n].keys # NoProperty
        /\ Len(filesData[2].nodes[n].keys) > Len(parser.result.physicalKeys)
    /\ Yield(2, filesData[3]) # <<>>
    /\ Yield(2, filesData[3]) # Yield(1, filesData[2])
    /\ parser.result.physicalKeys = Yield(1, filesData[2])
    /\ \E k \in 1..Len(parser.result.physicalKeys) :
        parser.result.physicalKeys[k].r = 0 - 9000

-----------------------------------------------------------------------------
(* Corpora for the matrix transform *)

\* the text of a map block of `len` RC macros, `width` keys per row
MapBlock(width, len) ==
    [i \in 1..len |-> <<(i - 1) \div width, (i - 1) % width>>]

TransformFiles ==
    {[File("boards/shields/foo/foo.dtsi") EXCEPT
        !.chosen = "layout0",
        !.nodes = <<Node("layout0", TRUE, <<PlainKey("0"), PlainKey("100"),
                                            PlainKey("150"), PlainKey("200")>>)>>,
        !.maps = <<MapBlock(2, 4)>>],
     [File("config/keyboard.dtsi") EXCEPT !.maps = <<MapBlock(3, 6)>>],
     [File("boards/shields/bar/bar.overlay") EXCEPT
        !.maps = <<MapBlock(2, 2), MapBlock(4, 8)>>],
     [File("boards/shields/foo/foo_l.overlay") EXCEPT !.maps = <<MapBlock(4, 4)>>],
     [File("boards/shields/foo/foo_r.overlay") EXCEPT !.maps = <<MapBlock(1, 0)>>],
     File("config/keyboard.keymap")}

InitTransform == InitParse(Corpora(TransformFiles))

SpecTransform == InitTransform /\ [][NextParse]_vars

\* the files of the corpus in which a map block is found
MapFiles == {i \in 1..Len(filesData) : filesData[i].maps # <<>>}

\* the row/column pairs of the map block found in file i
PairsOf(i) ==
    LET block == filesData[i].maps[1]
    IN  [k \in 1..Len(block) |-> [r |-> block[k][1], c |-> block[k][2]]]

\* the files whose map block has the most pairs
LongestMapFiles == {i \in MapFiles : \A j \in MapFiles : Len(PairsOf(j)) <= Len(PairsOf(i))}

\* the corpus with its files in another order
Reorderings ==
    {[i \in 1..Len(filesData) |-> filesData[f[i]]] :
        f \in {g \in [1..Len(filesData) -> 1..Len(filesData)] :
                \A i, j \in 1..Len(filesData) : i # j => g[i] # g[j]}}

(* C14: when map blocks are found in several files, matrixMap is the block  *)
(* of a file whose block has the most pairs, it has as many pairs in every  *)
(* processing order of the files, and when one block alone has the most     *)
(* pairs matrixMap is that block in every processing order.                 *)
C14_LongestMapWins ==
    Parsed /\ MapFiles # {} =>
        /\ \E i \in LongestMapFiles : parser.result.matrixMap = PairsOf(i)
        /\ \A c \in Reorderings :
            /\ Len(parse(c).result.matrixMap) = Len(parser.result.matrixMap)
            /\ Cardinality({PairsOf(i) : i \in LongestMapFiles}) = 1
                => parse(c).result.matrixMap = parser.result.matrixMap

\* three files with map blocks, the longest one in the last file
C14_Witness ==
    /\ Parsed
    /\ Cardinality(MapFiles) = 3
    /\ LongestMapFiles = {3}
    /\ Len(PairsOf(1)) > 0
    /\ Len(PairsOf(1)) < Len(PairsOf(3))
    /\ parser.result.matrixMap = PairsOf(3)
    /\ parser.result.matrixMap # PairsOf(1)

-----------------------------------------------------------------------------
\* the files whose map block has one pair per physical key
AlignedMapFiles ==
    {i \in MapFiles :
        /\ Len(parser.result.physicalKeys) > 0
        /\ Len(PairsOf(i)) = Len(parser.result.physicalKeys)}

(* C15, as stated: when a file of the corpus declares a map with one pair   *)
(* per physical key and the corpus holds other files too, matrixMap has as  *)
(* many entries as physicalKeys and its entries are the pairs of that map,  *)
(* in order.                                                                *)
C15_MapAlignedWithKeys ==
    Parsed /\ AlignedMapFiles # {} /\ Len(filesData) > 1 =>
        /\ Len(parser.result.matrixMap) = Len(parser.result.physicalKeys)
        /\ \E i \in AlignedMapFiles : parser.result.matrixMap = PairsOf(i)

(* C15, amended: when a file of the corpus declares a map with one pair per *)
(* physical key and no file of the corpus has a map block with more pairs,  *)
(* matrixMap has as many entries as physicalKeys and its entries are, in    *)
(* order, the pairs of the first processed file that declares such a map.   *)
C15_MapAlignedWhenLongest ==
    Parsed /\ AlignedMapFiles # {} /\ AlignedMapFiles \cap LongestMapFiles # {} =>
        /\ Len(parser.result.matrixMap) = Len(parser.result.physicalKeys)
        /\ parser.result.matrixMap = PairsOf(Min(AlignedMapFiles))

\* four keys, a map of four pairs in a later file and shorter maps in the
\* files before it
C15_Witness ==
    /\ Parsed
    /\ Len(parser.result.physicalKeys) = 4
    /\ Len(filesData) = 3
    /\ Cardinality(MapFiles) >= 2
    /\ AlignedMapFiles \cap LongestMapFiles # {}
    /\ Min(AlignedMapFiles) > 1
    /\ 1 \in MapFiles
    /\ parser.result.matrixMap = PairsOf(Min(AlignedMapFiles))
    /\ parser.result.matrixMap[4] = [r |-> 1, c |-> 1]

-----------------------------------------------------------------------------
(* Corpora for the build configuration *)

\* lines of a build.yaml
BuildLines ==
    {<<"-", " ", "shield:", " ", "foo_l">>,
     <<"shield:", " ", "foo_r", " ", "nice_view">>,
     <<"shield:", " ", "settings_reset">>,
     <<"shield:", " ", "[", "foo_l", ",", " ", "\"", "foo_r", "\"", "]">>,
     <<"shield:", " ", "'", "bar", " ", "nice_view", "'", " ", "#", " ", "foo">>,
     <<"board:", " ", "nice_nano">>,
     <<"#", " ", "shield:", " ", "bar">>,
     <<"shield:">>}

LineLists == UNION {[1..n -> BuildLines] : n \in 1..MaxLines}

BuildFile(name, lines) == [File(name) EXCEPT !.lines = lines]

\* a build.yaml alone, or with a second build configuration or a file of
\* another name before or after it
BuildCorpora ==
    {<<BuildFile("build.yaml", lines)>> : lines \in LineLists}
    \cup {<<BuildFile("build.yaml", <<a>>), BuildFile("config/build.yaml", <<b>>)>> :
            a \in BuildLines, b \in BuildLines}
    \cup {<<BuildFile("config/keyboard.conf", <<a>>), BuildFile("build.yaml", <<b>>)>> :
            a \in BuildLines, b \in BuildLines}

InitBuild == InitParse(BuildCorpora)

SpecBuild == InitBuild /\ [][NextParse]_vars

\* the base name of an entry: its first token that is a name
BaseName(entry) ==
    LET names == SelectSeq(entry, LAMBDA t : t \notin {" ", "\"", "'", "[", "]"})
    IN  IF names = <<>> THEN "" ELSE names[1]

\* the base names of the entries of the `shield:` declaration of a line
DeclaredOnLine(line) ==
    LET text == BeforeComment(line)
    IN  IF \A i \in 1..Len(text) : text[i] # "shield:" THEN <<>>
        ELSE LET entries == SplitOn(SubSeq(text,
                                Min({i \in 1..Len(text) : text[i] = "shield:"}) + 1,
                                Len(text)), ",")
             IN  [k \in 1..Len(entries) |-> BaseName(entries[k])]

\* the base names declared in the build configuration files, in text order
DeclaredShields ==
    Concat([f \in 1..Len(filesData) |->
        IF NameEndsWith(filesData[f].name, "build.yaml")
        THEN Concat([l \in 1..Len(filesData[f].lines) |->
                        DeclaredOnLine(filesData[f].lines[l])])
        ELSE <<>>])

\* pinMap as findAndParseBuildConfig leaves it
SeededBuckets ==
    findAndParseBuildConfig(
        [NewParser EXCEPT !.rawFiles =
            [i \in 1..Len(filesData) |-> stripComments(filesData[i])]]).result.pinMap

(* C16: the shield list is the sequence of the base names declared by the   *)
(* `shield:` lines of the build configuration, in order of first            *)
(* occurrence, without duplicates and without `settings_reset`, and         *)
(* findAndParseBuildConfig leaves one pin bucket per listed shield, in that *)
(* order, with empty row and col lists.                                     *)
C16_ShieldList ==
    Parsed =>
        /\ parser.shields =
                Dedup(SelectSeq(DeclaredShields,
                                LAMBDA s : s # "" /\ s # "settings_reset"))
        /\ Len(SeededBuckets) = Len(parser.shields)
        /\ \A k \in 1..Len(parser.shields) :
            /\ SeededBuckets[k].name = parser.shields[k]
            /\ SeededBuckets[k].row = <<>>
            /\ SeededBuckets[k].col = <<>>

\* `shield: foo_l`, `shield: foo_r ...` and `shield: settings_reset` give
\* [foo_l, foo_r]
C16_Witness ==
    /\ Parsed
    /\ Len(filesData) = 1
    /\ Len(filesData[1].lines) = 3
    /\ DeclaredShields = <<"foo_l", "foo_r", "settings_reset">>
    /\ parser.shields = <<"foo_l", "foo_r">>
    /\ Len(parser.result.pinMap) = 2

-----------------------------------------------------------------------------
(* Corpora for the pin configuration *)

\* the tokens of `<&phandle n FLAGS>, ...` for the pins first .. first + count - 1
GpioCells(phandle, first, count) ==
    Concat([k \in 1..count |-> <<phandle, PinNumbers[first + k], "GPIO_ACTIVE_HIGH">>])

\* a build.yaml of a split keyboard, a charlieplex half, a standard-matrix
\* half that declares its diode direction, and files that name no shield:
\* more row pins, more column pins, a direct-wired pin list, a keymap
PinFiles ==
    {BuildFile("build.yaml", <<<<"shield:", " ", "foo_l">>, <<"shield:", " ", "foo_r">>>>),
     [File("boards/shields/foo/foo_l.overlay") EXCEPT
        !.compatible = {"zmk,kscan-gpio-charlieplex"},
        !.gpios = GpioCells("&gpio", 0, 3),
        !.interruptGpios = GpioCells("&int", 0, 1)],
     [File("boards/shields/foo/foo_r.overlay") EXCEPT
        !.compatible = {"zmk,kscan-gpio-matrix"},
        !.diode = "row2col",
        !.rowGpios = GpioCells("&row", 0, 3),
        !.colGpios = GpioCells("&col", 0, 2)],
     [File("config/keyboard.dtsi") EXCEPT
        !.rowGpios = GpioCells("&row", 3, 2)],
     [File("boards/shields/foo/foo.dtsi") EXCEPT
        !.colGpios = GpioCells("&col", 2, 3),
        !.diode = "col2row"],
     [File("boards/shields/bar/bar.overlay") EXCEPT
        !.compatible = {"zmk,kscan-gpio-direct"},
        !.inputGpios = GpioCells("&input", 0, 2)],
     File("config/keyboard.keymap")}

InitPins == InitParse(Corpora(PinFiles))

SpecPins == InitPins /\ [][NextParse]_vars

\* some shield has charlieplex pins / direct pins after the parse
AnyCharlie == \E b \in 1..Len(parser.result.pinMap) : parser.result.pinMap[b].gpios # <<>>
AnyDirect == \E b \in 1..Len(parser.result.pinMap) : parser.result.pinMap[b].direct # <<>>

(* C17, as stated: after parse the diode direction is "col2row" when the    *)
(* recovered wiring is charlieplex and "row2col" when it is direct,         *)
(* whatever `diode-direction` the files declare and in whatever order they  *)
(* are processed, and it is "col2row" when no file declares one (and the    *)
(* wiring is not direct).                                                   *)
C17_DiodeDirectionForced ==
    Parsed =>
        /\ AnyCharlie /\ ~AnyDirect => parser.result.diodeDirection = "col2row"
        /\ AnyDirect /\ ~AnyCharlie => parser.result.diodeDirection = "row2col"
        /\ (\A i \in 1..Len(filesData) : filesData[i].diode = "") /\ ~AnyDirect
                => parser.result.diodeDirection = "col2row"

-----------------------------------------------------------------------------
\* the known shields that the name of file i contains
NamedShields(i) ==
    {s \in Range(parser.shields) : NameIncludes(filesData[i].name, s)}

\* file i is applied to shield s: its name contains s, or no known shield
AppliesTo(i, s) == NamedShields(i) \in {{}, {s}}

\* the pins that file i holds for a property of a pin bucket
PinsOfFile(i, property) ==
    LET file == filesData[i]
    IN  CASE property = "row" -> extractGpioList(file.rowGpios)
          [] property = "col" -> extractGpioList(file.colGpios)
          [] property = "gpios" ->
                IF isCharlieMode(file) THEN extractGpioList(file.gpios) ELSE <<>>
          [] property = "direct" ->
                IF isDirectMode(file) THEN extractGpioList(file.inputGpios) ELSE <<>>

\* the pin list of a property of a bucket
PinList(bucket, property) ==
    CASE property = "row" -> bucket.row
      [] property = "col" -> bucket.col
      [] property = "gpios" -> bucket.gpios
      [] property = "direct" -> bucket.direct

PinProperties == {"row", "col", "gpios", "direct"}

\* the files that contribute pins to a property of shield s, in processing order
Contributors(s, property) ==
    SelectSeq([i \in 1..Len(filesData) |-> i],
              LAMBDA i : AppliesTo(i, s) /\ PinsOfFile(i, property) # <<>>)

(* C18, as stated: when two files contribute pins to the same property of   *)
(* the same shield, the pin list after parse is the pins of the earlier     *)
(* file followed by those of the later file.                                *)
C18_LaterFileExtends ==
    Parsed =>
        \A b \in 1..Len(parser.result.pinMap), property \in PinProperties :
            LET from == Contributors(parser.result.pinMap[b].name, property)
            IN  Len(from) = 2 =>
                    PinList(parser.result.pinMap[b], property)
                        = PinsOfFile(from[1], property) \o PinsOfFile(from[2], property)

-----------------------------------------------------------------------------
\* the parser before findAndParsePinConfig reads file k, and after it has
PinsBefore(k) ==
    PinConfigFiles(
        findAndParseMatrixTransform(findAndParsePhysicalLayout(findAndParseBuildConfig(
            [NewParser EXCEPT !.rawFiles =
                [i \in 1..Len(filesData) |-> stripComments(filesData[i])]]))),
        SubSeq(parser.rawFiles, 1, k - 1))

PinsAfter(k) == PinConfigFile(PinsBefore(k), parser.rawFiles[k])

\* the four pin lists of shield s in a parser
PinListsOf(p, s) ==
    LET bucket == p.result.pinMap[BucketIndex(p, s)]
    IN  [property \in PinProperties |-> PinList(bucket, property)]

\* the pin lists of shield s once the pin lists of file k are applied to it
AppliedTo(k, s) ==
    [property \in PinProperties |->
        IF PinsOfFile(k, property) = <<>> THEN PinListsOf(PinsBefore(k), s)[property]
        ELSE Assign(PinListsOf(PinsBefore(k), s)[property], PinsOfFile(k, property))]

(* C19: in findAndParsePinConfig a file whose name contains a known shield  *)
(* name applies its pin lists to one shield that its name contains and      *)
(* leaves the pin lists of every other shield unchanged, and a file whose   *)
(* name contains no known shield name applies its pin lists to every known  *)
(* shield.                                                                  *)
C19_AttributionByFilename ==
    Parsed =>
        \A k \in 1..Len(filesData) :
            IF NamedShields(k) # {}
            THEN \E s \in NamedShields(k) :
                    /\ PinListsOf(PinsAfter(k), s) = AppliedTo(k, s)
                    /\ \A t \in Range(parser.shields) \ {s} :
                        PinListsOf(PinsAfter(k), t) = PinListsOf(PinsBefore(k), t)
            ELSE \A s \in Range(parser.shields) :
                    PinListsOf(PinsAfter(k), s) = AppliedTo(k, s)

\* a file that names one of two shields changes the pin lists of that shield
\* alone, after a file that names no shield has changed those of both
C19_Witness ==
    /\ Parsed
    /\ Len(parser.shields) = 2
    /\ \E j, k \in 1..Len(filesData) :
        /\ j < k
        /\ NamedShields(j) = {}
        /\ \A s \in Range(parser.shields) :
            PinListsOf(PinsAfter(j), s) # PinListsOf(PinsBefore(j), s)
        /\ \E s \in NamedShields(k) :
            /\ PinListsOf(PinsAfter(k), s) # PinListsOf(PinsBefore(k), s)
            /\ \A t \in Range(parser.shields) \ {s} :
                /\ PinListsOf(PinsAfter(k), t) = PinListsOf(PinsBefore(k), t)
                /\ PinListsOf(PinsAfter(k), t) # PinListsOf(PinsAfter(k), s)

-----------------------------------------------------------------------------
(* Repositories for handleRepoLoad *)

\* the database file of a repository
DatabaseOf(name) == <<"database of", name>>

\* a repository without a file of a relevant extension (its README.md holds
\* a physical layout); one whose relevant files hold no physical layout; one
\* that holds a physical layout and nothing else; and a split keyboard with
\* build configuration, layout, transform, pins and database
Repositories ==
    {Repository("user/docs",
        <<Directory("config"),
          Blob([File("README.md") EXCEPT
                    !.nodes = <<Node("layout0", TRUE, <<PlainKey("0")>>)>>])>>,
        DatabaseOf("user/docs")),
     Repository("user/keymap",
        <<Blob([File("config/keyboard.conf") EXCEPT
                    !.rowGpios = GpioCells("&row", 0, 2)]),
          Blob([File("config/keyboard.keymap") EXCEPT !.maps = <<MapBlock(2, 4)>>])>>,
        DatabaseOf("user/keymap")),
     Repository("user/layout",
        <<Blob(File("README.md")),
          Blob([File("config/keyboard.dtsi") EXCEPT
                    !.nodes = <<Node("layout0", TRUE,
                                     <<PlainKey("0"), PlainKey("100")>>)>>])>>,
        NoDatabase),
     Repository("user/foo",
        <<Blob([File("boards/shields/foo/foo.dtsi") EXCEPT
                    !.chosen = "layout0",
                    !.nodes = <<Node("layout0", TRUE,
                                     <<PlainKey("0"), PlainKey("100"), RotatedKey>>)>>,
                    !.maps = <<MapBlock(3, 3)>>]),
          Blob([File("boards/shields/foo/foo_r.overlay") EXCEPT
                    !.compatible = {"zmk,kscan-gpio-matrix"},
                    !.rowGpios = GpioCells("&row", 0, 1),
                    !.colGpios = GpioCells("&col", 0, 3)]),
          Blob(BuildFile("build.yaml", <<<<"shield:", " ", "foo_r">>>>))>>,
        DatabaseOf("user/foo"))}

\* the JSON of a database file that the user uploads
UploadedDatabase == <<"uploaded database">>

\* the paths of the tree of a repository
Paths(repo) == {repo.tree[i].path : i \in 1..Len(repo.tree)}

\* the page before the first load; index.html decides which panels start
\* hidden
InitLoad ==
    /\ parsedData = InitialParsedData
    /\ selectedIndices = <<>>
    /\ issueMapping = <<>>
    /\ resultHidden = TRUE
    /\ failures = <<>>
    /\ analyzed = FALSE
    /\ calls = 0
    /\ repeated = FALSE
    /\ filesData = <<>>
    /\ parser = NewParser
    /\ status = ""
    /\ debugHidden \in BOOLEAN
    /\ manualHidden \in BOOLEAN
    /\ instructionHidden = FALSE
    /\ loads = <<>>
    /\ parsedOwner = 0

NextLoad ==
    \/ handleRepoLoadNoName
    \/ \E repo \in Repositories : handleRepoLoad(repo.name)
    \/ \E k \in 1..MaxLoads : FetchThrows(k)
    \/ \E k \in 1..MaxLoads : \E repo \in Repositories :
        \E failed \in SUBSET Paths(repo) : FetchReturns(k, repo, failed)
    \/ \E k \in 1..MaxLoads : \E repo \in Repositories :
        \E database \in {repo.database, NoDatabase} : DatabaseReturns(k, repo, database)
    \/ ManualUploadFails
    \/ handleManualDatabaseUpload(UploadedDatabase)

SpecLoad == InitLoad /\ [][NextLoad]_vars

-----------------------------------------------------------------------------
(* C20: when fetchRelevantFiles has returned, handleRepoLoad ends in the    *)
(* error status with the debug interface hidden, without having set the    *)
(* success status, if it got no file or the parser found no physical key;  *)
(* otherwise it ends in the success status with the debug interface shown,  *)
(* whatever else is missing (matrix map, pins, shields, database)          *)
C20_TwoFatalCases ==
    [][\A k \in 1..Len(loads) :
        (loads[k].pc # "done" /\ loads'[k].pc = "done" /\ loads'[k].returned) =>
            IF \/ loads'[k].filesData = <<>>
               \/ Len(loads'[k].result.physicalKeys) = 0
            THEN /\ status' = "error"
                 /\ debugHidden'
                 /\ "success" \notin Range(loads'[k].statuses)
            ELSE /\ status' = "success"
                 /\ ~debugHidden']_vars

\* a load that found files but no physical key has ended, and then a load
\* that found physical keys but neither matrix map, pins, shields nor
\* database
C20_Witness ==
    /\ Len(loads) = 2
    /\ loads[1].pc = "done"
    /\ loads[1].filesData # <<>>
    /\ Len(loads[1].result.physicalKeys) = 0
    /\ loads[1].statuses[Len(loads[1].statuses)] = "error"
    /\ loads[2].pc = "done"
    /\ Len(loads[2].result.physicalKeys) > 0
    /\ loads[2].result.matrixMap = <<>>
    /\ loads[2].result.pinMap = <<>>
    /\ parsedOwner = 2
    /\ parsedData.database = NoDatabase
    /\ status = "success"
    /\ ~debugHidden

-----------------------------------------------------------------------------
(* Corpora with a shield name inside another *)

\* two build configurations that declare the shields foo and foo_l, in the
\* two orders; an overlay whose name contains both names, with offsets and
\* row pins; a file whose name contains foo only, and one that names no shield
NestedFiles ==
    {BuildFile("build.yaml", <<<<"shield:", " ", "foo">>, <<"shield:", " ", "foo_l">>>>),
     BuildFile("config/build.yaml",
               <<<<"shield:", " ", "foo_l">>, <<"shield:", " ", "foo">>>>),
     [File("boards/shields/foo/foo_l.overlay") EXCEPT
        !.colOffset = 5,
        !.rowOffset = 1,
        !.rowGpios = GpioCells("&row", 0, 2)],
     [File("boards/shields/foo/foo.dtsi") EXCEPT
        !.colGpios = GpioCells("&col", 0, 3)],
     [File("config/keyboard.dtsi") EXCEPT
        !.rowGpios = GpioCells("&row", 2, 1)]}

InitNested == InitParse(Corpora(NestedFiles))

SpecNested == InitNested /\ [][NextParse]_vars

\* the known shields named by file k of which every other one named by it is
\* a part: the longest shield name that the file name contains
LongestNamed(k) ==
    {s \in NamedShields(k) : \A t \in NamedShields(k) : NameIncludes(s, t)}

\* the files that declare a column offset, a row offset
ColOffsetFiles == {i \in 1..Len(filesData) : filesData[i].colOffset # Undefined}
RowOffsetFiles == {i \in 1..Len(filesData) : filesData[i].rowOffset # Undefined}

(* C21, as stated: a file whose name contains several known shield names    *)
(* applies its pin lists to the longest of them and to no other shield,     *)
(* and when it is the only file that declares offsets they are recorded on  *)
(* the bucket of that shield, whatever the order of the shields in the      *)
(* build configuration.                                                     *)
C21_LongestMatchWins ==
    Parsed =>
        \A k \in 1..Len(filesData) : \A s \in LongestNamed(k) :
            Cardinality(NamedShields(k)) > 1 =>
                /\ PinListsOf(PinsAfter(k), s) = AppliedTo(k, s)
                /\ \A t \in Range(parser.shields) \ {s} :
                    PinListsOf(PinsAfter(k), t) = PinListsOf(PinsBefore(k), t)
                /\ ColOffsetFiles = {k} =>
                    parser.result.pinMap[BucketIndex(parser, s)].colOffset
                        = filesData[k].colOffset
                /\ RowOffsetFiles = {k} =>
                    parser.result.pinMap[BucketIndex(parser, s)].rowOffset
                        = filesData[k].rowOffset

-----------------------------------------------------------------------------
(* Corpora with files of several wiring signatures *)

\* a build.yaml of a split keyboard; a half with row pins, a generic pin list
\* and the charlieplex compatible; a half with column pins, an input pin
\* list and the direct compatible; a file with a generic and an input pin
\* list only; files with row pins only and with a generic pin list only
ModeFiles ==
    {BuildFile("build.yaml", <<<<"shield:", " ", "foo_l">>, <<"shield:", " ", "foo_r">>>>),
     [File("boards/shields/foo/foo_l.overlay") EXCEPT
        !.compatible = {"zmk,kscan-gpio-charlieplex"},
        !.rowGpios = GpioCells("&row", 0, 2),
        !.gpios = GpioCells("&gpio", 0, 3)],
     [File("boards/shields/foo/foo_r.overlay") EXCEPT
        !.compatible = {"zmk,kscan-gpio-direct"},
        !.colGpios = GpioCells("&col", 0, 2),
        !.inputGpios = GpioCells("&input", 0, 2)],
     [File("config/keyboard.dtsi") EXCEPT
        !.gpios = GpioCells("&gpio", 3, 2),
        !.inputGpios = GpioCells("&input", 2, 2)],
     [File("boards/shields/bar/bar.overlay") EXCEPT
        !.rowGpios = GpioCells("&row", 2, 2)],
     [File("boards/shields/foo/foo.dtsi") EXCEPT
        !.gpios = GpioCells("&gpio", 5, 2)]}

InitModes == InitParse(Corpora(ModeFiles))

SpecModes == InitModes /\ [][NextParse]_vars

\* the pin list of a property of shield s that reading file k changes
ChangedBy(k, s, property) ==
    PinListsOf(PinsAfter(k), s)[property] # PinListsOf(PinsBefore(k), s)[property]

\* the wiring modes to which file k contributes pins
ModesOf(k) ==
    {mode \in {"standard", "charlieplex", "direct"} :
        \E s \in Range(parser.shields) :
            CASE mode = "standard" -> ChangedBy(k, s, "row") \/ ChangedBy(k, s, "col")
              [] mode = "charlieplex" -> ChangedBy(k, s, "gpios")
              [] mode = "direct" -> ChangedBy(k, s, "direct")}

(* C22, as stated: a file that has a row-gpios or col-gpios property        *)
(* changes no shield's charlieplex gpios list and no shield's direct list,  *)
(* whatever compatible it declares, and every file contributes pins to at   *)
(* most one wiring mode.                                                    *)
C22_ModeByPriority ==
    Parsed =>
        \A k \in 1..Len(filesData) :
            /\ HasRowOrCol(filesData[k]) => ModesOf(k) \subseteq {"standard"}
            /\ Cardinality(ModesOf(k)) <= 1

-----------------------------------------------------------------------------
\* key idx uses ordinal pin index p of its shield in a role that roleFail flags
UsesInRole(pos, idx, p, roleFail) ==
    \/ roleFail \in {"in", "both"} /\ pos[idx].physR = p
    \/ roleFail \in {"out", "both"} /\ pos[idx].physC = p

(* C23: every key listed in a row, col, charlie, direct or single report is *)
(* failing and resolves to the shield of the report; a key listed in a      *)
(* charlie report uses the reported ordinal pin index in a flagged role.    *)
C23_ListedKeysFail ==
    analyzed =>
        LET pos == Pos
        IN  \A i \in 1..Len(failures) :
            failures[i].type \in {"row", "col", "charlie", "direct", "single"} =>
                \A idx \in Range(failures[i].indices) :
                    /\ idx \in Failing
                    /\ idx \in DOMAIN pos
                    /\ pos[idx].side = failures[i].side
                    /\ failures[i].type = "charlie" =>
                        UsesInRole(pos, idx, failures[i].index, failures[i].roleFail)

\* a charlie report lists some but not all keys that use its pin in the
\* flagged role, while an interrupt or direct_gnd report lists a key that is
\* not failing
C23_Witness ==
    /\ analyzed
    /\ \E i \in 1..Len(failures) :
        /\ failures[i].type = "charlie"
        /\ failures[i].indices # <<>>
        /\ \E idx \in DOMAIN Pos \ Failing :
            /\ Pos[idx].side = failures[i].side
            /\ UsesInRole(Pos, idx, failures[i].index, failures[i].roleFail)
    /\ \E i \in 1..Len(failures) :
        /\ failures[i].type \in {"interrupt", "direct_gnd"}
        /\ Range(failures[i].indices) \ Failing # {}

-----------------------------------------------------------------------------
\* the reports of a list that list key kIdx
ListingIn(fs, kIdx) == {i \in 1..Len(fs) : Includes(fs[i].indices, kIdx)}

\* issueMapping colours exactly the keys that the reports of fs list, each
\* with the colour of the first report that lists it
ColouredBy(fs) ==
    /\ DOMAIN issueMapping = UNION {Range(fs[i].indices) : i \in 1..Len(fs)}
    /\ \A kIdx \in DOMAIN issueMapping :
        issueMapping[kIdx] = (Min(ListingIn(fs, kIdx)) - 1) % NumIssueColors

(* C24: in every reachable state a non-empty issueMapping is the colouring  *)
(* of the reports that analyzeFailures returns for the current selection,   *)
(* each key with the colour of the first report that lists it; every step   *)
(* that changes the selection empties issueMapping and hides the result     *)
(* area.                                                                    *)
C24_ColouringFollowsSelection ==
    /\ [](issueMapping # <<>> =>
            /\ ~resultHidden
            /\ ColouredBy(analyzeFailures(parsedData, selectedIndices)))
    /\ [][selectedIndices' # selectedIndices =>
            issueMapping' = <<>> /\ resultHidden']_vars

\* a diagnosis in which a key is listed by two reports of different colours
C24_Witness ==
    /\ analyzed
    /\ ColouredBy(failures)
    /\ \E kIdx \in DOMAIN issueMapping :
        \E i, j \in ListingIn(failures, kIdx) :
            /\ i < j
            /\ (i - 1) % NumIssueColors # (j - 1) % NumIssueColors
            /\ issueMapping[kIdx] = (i - 1) % NumIssueColors

-----------------------------------------------------------------------------
\* every type of report
ReportTypes == {"row", "col", "charlie", "direct", "direct_gnd", "interrupt", "single"}

(* C25: when at least one shield is valid, every failing key that has a     *)
(* matrixMap entry is listed in at least one report of the returned list.   *)
C25_EveryFailingKeyListed ==
    analyzed /\ ValidNames # {} =>
        \A idx \in Failing :
            HasEntry(parsedData, idx) => Listing(ReportTypes, idx) # {}

\* two failing keys with an entry are listed, one of them for which no valid
\* shield qualifies, the other one in a line report only; a third failing
\* key has no entry and is not listed
C25_Witness ==
    /\ analyzed
    /\ ValidNames # {}
    /\ \E idx \in Failing :
        /\ HasEntry(parsedData, idx)
        /\ Qualifying(EntryOf(parsedData, idx)) = {}
        /\ Listing(ReportTypes, idx) # {}
    /\ \E idx \in Failing :
        /\ HasEntry(parsedData, idx)
        /\ Listing({"row", "col"}, idx) # {}
        /\ Listing({"single"}, idx) = {}
    /\ \E idx \in Failing :
        /\ ~HasEntry(parsedData, idx)
        /\ Listing(ReportTypes, idx) = {}

(* C26, as stated: a key is never resolved to a shield whose rowOffset      *)
(* exceeds its logical row or whose colOffset exceeds its logical column;   *)
(* a key for which no valid shield qualifies resolves to no shield and is   *)
(* listed in no report.                                                     *)
C26_NeverBeyondOffsets ==
    analyzed =>
        LET pos == Pos
        IN  \A idx \in DOMAIN pos :
            LET m == EntryOf(parsedData, idx)
            IN  /\ pos[idx].side \in Qualifying(m)
                /\ \A i \in 1..Len(failures) :
                    Includes(failures[i].indices, idx) =>
                        failures[i].side \in Qualifying(m)

-----------------------------------------------------------------------------
(* The page with its loads and its selection handlers. The canvas and the  *)
(* buttons of the selection are used while the debug interface is shown,   *)
(* which is from the end of a successful load to the end of a failed one.  *)

NextReload == NextLoad \/ (~debugHidden /\ Next)

SpecReload == InitLoad /\ [][NextReload]_vars

\* invocation k of handleRepoLoad ends in this step, with the given status
EndsWith(k, type) ==
    /\ loads[k].pc # "done"
    /\ loads'[k].pc = "done"
    /\ loads'[k].statuses[Len(loads'[k].statuses)] = type

(* C27, as stated: when handleRepoLoad completes with the success status,   *)
(* selectedIndices holds only indices below the number of physical keys of  *)
(* the loaded keyboard and issueMapping is empty.                           *)
C27_ReloadClearsSelection ==
    [][\A k \in 1..Len(loads) :
        EndsWith(k, "success") =>
            /\ \A idx \in Range(selectedIndices') :
                idx < Len(parsedData'.physicalKeys)
            /\ issueMapping' = <<>>]_vars

-----------------------------------------------------------------------------
(* C28, as stated: a handleRepoLoad that fails (empty repository name,      *)
(* fetch error, no relevant file, zero physical keys) leaves parsedData as  *)
(* it was: the step in which it ends in the error status does not change    *)
(* parsedData, and it has not changed it before.                            *)
C28_FailedLoadKeepsParsedData ==
    [][(handleRepoLoadNoName \/ \E k \in 1..Len(loads) : EndsWith(k, "error"))
            => parsedData' = parsedData]_vars

-----------------------------------------------------------------------------
\* the repository of a name
RepositoryNamed(name) == CHOOSE repo \in Repositories : repo.name = name

\* every invocation of handleRepoLoad has ended, each with the success status
AllLoaded ==
    /\ loads # <<>>
    /\ \A k \in 1..Len(loads) :
        /\ loads[k].pc = "done"
        /\ loads[k].statuses[Len(loads[k].statuses)] = "success"

(* C29, as stated: once every handleRepoLoad has completed, parsedData      *)
(* holds the topology parsed for the repository requested last, and         *)
(* parsedData.database is what fetchDatabase returned for that repository   *)
(* or the database uploaded by hand.                                        *)
C29_LastRequestWins ==
    AllLoaded =>
        LET last == loads[Len(loads)]
        IN  /\ parsedData.physicalKeys = last.result.physicalKeys
            /\ parsedData.matrixMap = last.result.matrixMap
            /\ parsedData.pinMap = last.result.pinMap
            /\ parsedData.database \in
                {RepositoryNamed(last.repo).database, NoDatabase, UploadedDatabase}

-----------------------------------------------------------------------------
(* C30, as stated: the list analyzeFailures returns depends on the selected *)
(* keys only as a set. The selection made by any click history yields the   *)
(* list that the same keys yield when they are clicked in ascending order:  *)
(* the same reports in the same order, each with the same indices in the    *)
(* same order.                                                              *)
C30_DependsOnSetOnly ==
    analyzed =>
        failures = analyzeFailures(parsedData, Ascending(Range(selectedIndices)))

====
